---- MODULE Spec2Model ----
(***************************************************************************)
(* TrueVibe ingestion / identity / association store.                      *)
(*                                                                         *)
(* Text is modelled as a sequence of one-character strings, so that        *)
(* str.strip(), str.lower() and str.lstrip("@") are computed character by  *)
(* character.  A nullable Python / SQL value is an option: None is <<>>    *)
(* and a present value v is <<v>>.                                         *)
(***************************************************************************)
EXTENDS Integers, Sequences, FiniteSets, TLC

VARIABLES
    influencers,           \* table influencers; ids are numbered in insertion order
    campaign_influencers,  \* table campaign_influencers, likewise
    kol_sources,           \* table kol_sources, likewise
    clock,                 \* the wall clock read by _now()
    result,                \* what the handler that just ran returned; "idle" between calls
    pc,                    \* per worker: position inside a database call
    call,                  \* per worker: arguments and locals of its call
    history                \* profiles whose upsert statement has committed; calls begun

vars == <<influencers, campaign_influencers, kol_sources, clock, result, pc, call, history>>

----------------------------------------------------------------------------
(* Bounds of the model *)

MaxClock == 1
MaxRows == 2
MaxBatch == 2
MaxCalls == 3

----------------------------------------------------------------------------
(* Options and text *)

None == <<>>
Some(v) == <<v>>
IsNone(o) == o = None
Val(o) == o[1]

IsSpace(c) == c = " "

UpperLetters ==
    <<"A", "B", "C", "D", "E", "F", "G", "H", "I", "J", "K", "L", "M",
      "N", "O", "P", "Q", "R", "S", "T", "U", "V", "W", "X", "Y", "Z">>

LowerLetters ==
    <<"a", "b", "c", "d", "e", "f", "g", "h", "i", "j", "k", "l", "m",
      "n", "o", "p", "q", "r", "s", "t", "u", "v", "w", "x", "y", "z">>

LowerOf == [c \in {UpperLetters[i] : i \in 1..26} |->
               LowerLetters[CHOOSE i \in 1..26 : UpperLetters[i] = c]]

UpperOf == [c \in {LowerLetters[i] : i \in 1..26} |->
               UpperLetters[CHOOSE i \in 1..26 : LowerLetters[i] = c]]

\* str.lower() on one character
LowerChar(c) == IF c \in DOMAIN LowerOf THEN LowerOf[c] ELSE c

Lower(s) == [i \in 1..Len(s) |-> LowerChar(s[i])]

RECURSIVE LStripWs(_)
LStripWs(s) == IF s # <<>> /\ IsSpace(Head(s)) THEN LStripWs(Tail(s)) ELSE s

RECURSIVE RStripWs(_)
RStripWs(s) ==
    IF s # <<>> /\ IsSpace(s[Len(s)]) THEN RStripWs(SubSeq(s, 1, Len(s) - 1)) ELSE s

\* str.strip()
Strip(s) == RStripWs(LStripWs(s))

\* str.lstrip("@")
RECURSIVE LStripAt(_)
LStripAt(s) == IF s # <<>> /\ Head(s) = "@" THEN LStripAt(Tail(s)) ELSE s

----------------------------------------------------------------------------
(* database.py *)

SCORE_COLUMNS ==
    { "reach_score", "interest_score", "engagement_rate", "engagement_score",
      "content_balance", "organic_posts_l2m", "sponsored_posts_l2m",
      "saturation_rate", "content_originality", "content_creativity",
      "content_score", "authority_credentials", "authority_professionalism",
      "authority_reputation", "authority_score", "values_alignment",
      "values_neutrality", "values_authenticity", "values_score",
      "total_score", "qualitative_notes" }

\* the score columns of a freshly inserted association: every one NULL
NullScores == [c \in SCORE_COLUMNS |-> None]

\* json.dumps(d): the stored text of a dict
JsonDumps(d) == [json |-> d]

\* the empty dict {}
EmptyDict == [kind |-> "empty", details |-> None]

\* dict.get(column): None for a key the payload does not carry
PayloadGet(payload, column) ==
    IF column \in DOMAIN payload THEN payload[column] ELSE None

\* rows of influencers that carry the UNIQUE (handle, platform) key
InfluencerRows(tbl, handle, platform) ==
    { i \in 1..Len(tbl) : tbl[i].handle = handle /\ tbl[i].platform = platform }

\* INSERT INTO influencers ... ON CONFLICT(handle, platform) DO UPDATE SET
\*   name, follower_count, demographics_json, last_seen_at = excluded.*
UpsertLosesId(tbl, name, handle, platform, follower_count, demographics_json, now) ==
    LET hit == InfluencerRows(tbl, handle, platform)
        row == [id |-> Len(tbl) + 1, name |-> name, handle |-> handle,
                platform |-> platform, follower_count |-> follower_count,
                demographics_json |-> demographics_json, last_seen_at |-> now]
    IN  IF hit # {}
        THEN LET i == CHOOSE i \in hit : TRUE
             IN  [tbl EXCEPT ![i] = [row EXCEPT !.id = tbl[i].id + 1]]
        ELSE Append(tbl, row)

UpsertNoConflictTarget(tbl, name, handle, platform, follower_count, demographics_json, now) ==
    Append(tbl, [id |-> Len(tbl) + 1, name |-> name, handle |-> handle,
                 platform |-> platform, follower_count |-> follower_count,
                 demographics_json |-> demographics_json, last_seen_at |-> now])

UpsertKeepsStoredName(tbl, name, handle, platform, follower_count, demographics_json, now) ==
    LET hit == InfluencerRows(tbl, handle, platform)
    IN  IF hit # {}
        THEN LET i == CHOOSE i \in hit : TRUE
             IN  [tbl EXCEPT ![i].follower_count = follower_count,
                             ![i].demographics_json = demographics_json,
                             ![i].last_seen_at = now]
        ELSE Append(tbl, [id |-> Len(tbl) + 1, name |-> name, handle |-> handle,
                          platform |-> platform, follower_count |-> follower_count,
                          demographics_json |-> demographics_json, last_seen_at |-> now])

UpsertMergesHalf(tbl, name, handle, platform, follower_count, demographics_json, now) ==
    LET hit == InfluencerRows(tbl, handle, platform)
    IN  IF hit # {}
        THEN LET i == CHOOSE i \in hit : TRUE
             IN  [tbl EXCEPT ![i].name = name, ![i].last_seen_at = now]
        ELSE Append(tbl, [id |-> Len(tbl) + 1, name |-> name, handle |-> handle,
                          platform |-> platform, follower_count |-> follower_count,
                          demographics_json |-> demographics_json, last_seen_at |-> now])

InsertOrUpdateInfluencer(tbl, name, handle, platform, follower_count, demographics_json, now) ==
    LET hit == InfluencerRows(tbl, handle, platform)
    IN  IF hit # {}
        THEN LET i == CHOOSE i \in hit : TRUE
             IN  [tbl EXCEPT ![i].name = name,
                             ![i].follower_count = follower_count,
                             ![i].demographics_json = demographics_json,
                             ![i].last_seen_at = now]
        ELSE Append(tbl, [id |-> Len(tbl) + 1, name |-> name, handle |-> handle,
                          platform |-> platform, follower_count |-> follower_count,
                          demographics_json |-> demographics_json, last_seen_at |-> now])

\* the bound parameters of the statement, computed before it runs
UpsertHandle(profile) == Lower(Strip(Val(profile.handle)))
UpsertPlatform(profile) == Val(profile.platform)
UpsertName(profile) == Strip(Val(profile.name))
UpsertDemographics(profile) ==
    JsonDumps(IF IsNone(profile.demographics) THEN EmptyDict ELSE Val(profile.demographics))

\* None.strip() raises AttributeError before any statement is executed
UpsertRaises(profile) ==
    IsNone(profile.handle) \/ IsNone(profile.platform) \/ IsNone(profile.name)

\* the table after upsert_influencer(profile) has committed
UpsertTable(tbl, profile, now) ==
    InsertOrUpdateInfluencer(tbl, UpsertName(profile), UpsertHandle(profile),
                             UpsertPlatform(profile), profile.follower_count,
                             UpsertDemographics(profile), now)

\* SELECT * FROM influencers WHERE handle = ? AND platform = ?  (fetchone)
SelectInfluencer(tbl, handle, platform) ==
    LET hit == InfluencerRows(tbl, handle, platform)
    IN  IF hit = {} THEN None ELSE Some(tbl[CHOOSE i \in hit : \A j \in hit : i <= j])

AssociationRows(tbl, campaign_id, influencer_id) ==
    { i \in 1..Len(tbl) :
        tbl[i].campaign_id = campaign_id /\ tbl[i].influencer_id = influencer_id }

\* INSERT INTO campaign_influencers (campaign_id, influencer_id, created_at,
\*   updated_at) ... ON CONFLICT(campaign_id, influencer_id) DO UPDATE SET
\*   updated_at = excluded.updated_at
EnsureAlwaysInserts(tbl, campaign_id, influencer_id, now) ==
    Append(tbl, [id |-> Len(tbl) + 1, campaign_id |-> campaign_id,
                 influencer_id |-> influencer_id, scores |-> NullScores,
                 created_at |-> now, updated_at |-> now])

EnsureReplacesRow(tbl, campaign_id, influencer_id, now) ==
    LET hit == AssociationRows(tbl, campaign_id, influencer_id)
    IN  IF hit # {}
        THEN LET i == CHOOSE i \in hit : TRUE
             IN  [tbl EXCEPT ![i].scores = NullScores,
                             ![i].created_at = now,
                             ![i].updated_at = now]
        ELSE Append(tbl, [id |-> Len(tbl) + 1, campaign_id |-> campaign_id,
                          influencer_id |-> influencer_id, scores |-> NullScores,
                          created_at |-> now, updated_at |-> now])

EnsureClearsScores(tbl, campaign_id, influencer_id, now) ==
    LET hit == AssociationRows(tbl, campaign_id, influencer_id)
    IN  IF hit # {}
        THEN LET i == CHOOSE i \in hit : TRUE
             IN  [tbl EXCEPT ![i].scores = NullScores, ![i].updated_at = now]
        ELSE Append(tbl, [id |-> Len(tbl) + 1, campaign_id |-> campaign_id,
                          influencer_id |-> influencer_id, scores |-> NullScores,
                          created_at |-> now, updated_at |-> now])

InsertOrTouchAssociation(tbl, campaign_id, influencer_id, now) ==
    LET hit == AssociationRows(tbl, campaign_id, influencer_id)
    IN  IF hit # {}
        THEN LET i == CHOOSE i \in hit : TRUE
             IN  [tbl EXCEPT ![i].updated_at = now]
        ELSE Append(tbl, [id |-> Len(tbl) + 1, campaign_id |-> campaign_id,
                          influencer_id |-> influencer_id, scores |-> NullScores,
                          created_at |-> now, updated_at |-> now])

\* SELECT ... FROM campaign_influencers ci JOIN influencers i ... (fetchone)
SelectAssociation(tbl, campaign_id, influencer_id) ==
    LET hit == AssociationRows(tbl, campaign_id, influencer_id)
    IN  IF hit = {} THEN None ELSE Some(tbl[CHOOSE i \in hit : \A j \in hit : i <= j])

UpdateWithoutWhere(tbl, campaign_influencer_id, payload, now) ==
    [i \in 1..Len(tbl) |->
        [tbl[i] EXCEPT !.scores = [c \in SCORE_COLUMNS |-> PayloadGet(payload, c)],
                       !.updated_at = now]]

\* UPDATE campaign_influencers SET <every score column> = ?, updated_at = ?
\*   WHERE id = ?
UpdateScores(tbl, campaign_influencer_id, payload, now) ==
    [i \in 1..Len(tbl) |->
        IF tbl[i].id = campaign_influencer_id
        THEN [tbl[i] EXCEPT !.scores = [c \in SCORE_COLUMNS |-> PayloadGet(payload, c)],
                            !.updated_at = now]
        ELSE tbl[i]]

----------------------------------------------------------------------------
(* Inputs of the database-level calls *)

Campaigns == {1, 2}

Platforms == {"Instagram", "TikTok"}

HandleTexts == { <<"a">>, <<" ", "A", " ">> }

NameTexts == { <<"N">>, <<"M", " ">> }

FollowerCounts == {5000, 12300}

ApiDemographics == [kind |-> "api", details |-> None]

\* the profiles handed to upsert_influencer
Profiles ==
    [ name : {None} \cup {Some(n) : n \in NameTexts},
      handle : {Some(h) : h \in HandleTexts},
      platform : {Some(p) : p \in Platforms},
      follower_count : {None} \cup {Some(n) : n \in FollowerCounts},
      demographics : {None, Some(ApiDemographics)} ]

\* score payloads handed to save_campaign_influencer_scores; values are
\* hundredths, notes are text
ScorePayloads ==
    { [reach_score |-> Some(200), interest_score |-> Some(300),
       engagement_rate |-> Some(150), engagement_score |-> Some(200),
       content_originality |-> Some(300), content_creativity |-> Some(400),
       content_score |-> Some(350), authority_score |-> Some(300),
       values_score |-> Some(300), total_score |-> Some(1650),
       qualitative_notes |-> Some(<<"o", "k">>)],
      [reach_score |-> Some(500), interest_score |-> Some(500),
       engagement_rate |-> Some(600), engagement_score |-> Some(500),
       content_originality |-> Some(500), content_creativity |-> Some(500),
       content_score |-> Some(500), authority_score |-> Some(500),
       values_score |-> Some(500), total_score |-> Some(3000),
       qualitative_notes |-> Some(<<>>)] }

----------------------------------------------------------------------------
(* Handlers of database.py, each one call run to completion *)

NoWorkers == [w \in {} |-> "idle"]

Sequential == UNCHANGED <<pc, call, history>>

\* _now() at second resolution: the clock may or may not have advanced
Idle == [op |-> "idle", ok |-> TRUE, arg |-> None, prev |-> None, ret |-> None]

\* the caller has consumed the returned value and may call again
Return ==
    /\ result.op # "idle"
    /\ result' = Idle
    /\ UNCHANGED <<influencers, campaign_influencers, kol_sources, clock>>
    /\ Sequential

Tick ==
    /\ result.op = "idle"
    /\ clock < MaxClock
    /\ clock' = clock + 1
    /\ UNCHANGED <<influencers, campaign_influencers, kol_sources, result>>
    /\ Sequential

upsert_influencer(profile) ==
    /\ result.op = "idle"
    /\ IF UpsertRaises(profile)
       THEN /\ UNCHANGED influencers
            /\ result' = [op |-> "upsert", ok |-> FALSE, arg |-> profile,
                          prev |-> None, ret |-> None]
       ELSE /\ \/ Len(influencers) < MaxRows
               \/ InfluencerRows(influencers, UpsertHandle(profile), UpsertPlatform(profile)) # {}
            /\ influencers' = UpsertTable(influencers, profile, clock)
            /\ result' = [op |-> "upsert", ok |-> TRUE, arg |-> profile,
                          prev |-> SelectInfluencer(influencers, UpsertHandle(profile),
                                                    UpsertPlatform(profile)),
                          ret |-> SelectInfluencer(influencers', UpsertHandle(profile),
                                                   UpsertPlatform(profile))]
    /\ UNCHANGED <<campaign_influencers, kol_sources, clock>>
    /\ Sequential

ensure_campaign_influencer(campaign_id, influencer_id) ==
    /\ result.op = "idle"
    /\ \/ Len(campaign_influencers) < MaxRows
       \/ AssociationRows(campaign_influencers, campaign_id, influencer_id) # {}
    /\ campaign_influencers' =
           InsertOrTouchAssociation(campaign_influencers, campaign_id, influencer_id, clock)
    /\ result' = [op |-> "ensure", ok |-> TRUE, arg |-> <<campaign_id, influencer_id>>,
                  prev |-> SelectAssociation(campaign_influencers, campaign_id, influencer_id),
                  ret |-> SelectAssociation(campaign_influencers', campaign_id, influencer_id)]
    /\ UNCHANGED <<influencers, kol_sources, clock>>
    /\ Sequential

save_campaign_influencer_scores(campaign_influencer_id, payload) ==
    /\ result.op = "idle"
    /\ campaign_influencers' =
           UpdateScores(campaign_influencers, campaign_influencer_id, payload, clock)
    /\ result' = [op |-> "save", ok |-> TRUE, arg |-> <<campaign_influencer_id, payload>>,
                  prev |-> None, ret |-> None]
    /\ UNCHANGED <<influencers, kol_sources, clock>>
    /\ Sequential

InitStore ==
    /\ influencers = <<>>
    /\ campaign_influencers = <<>>
    /\ kol_sources = <<>>
    /\ clock = 0
    /\ result = Idle

Init ==
    /\ InitStore
    /\ pc = NoWorkers
    /\ call = NoWorkers
    /\ history = [written |-> {}, calls |-> 0]

Next ==
    \/ Tick
    \/ Return
    \/ \E profile \in Profiles : upsert_influencer(profile)

Spec == Init /\ [][Next]_vars

----------------------------------------------------------------------------
(* More text operations *)

IsDigit(c) == c \in {"0", "1", "2", "3", "4", "5", "6", "7", "8", "9"}

DigitValue(c) ==
    CASE c = "0" -> 0 [] c = "1" -> 1 [] c = "2" -> 2 [] c = "3" -> 3 [] c = "4" -> 4
      [] c = "5" -> 5 [] c = "6" -> 6 [] c = "7" -> 7 [] c = "8" -> 8 [] c = "9" -> 9

\* int() of a non-empty run of digits
RECURSIVE DigitsValue(_)
DigitsValue(s) ==
    IF s = <<>> THEN 0 ELSE 10 * DigitsValue(SubSeq(s, 1, Len(s) - 1)) + DigitValue(s[Len(s)])

RECURSIVE Pow10(_)
Pow10(n) == IF n = 0 THEN 1 ELSE 10 * Pow10(n - 1)

\* the characters of s that satisfy / do not satisfy a test
RECURSIVE OnlyDigits(_)
OnlyDigits(s) ==
    IF s = <<>> THEN <<>>
    ELSE IF IsDigit(Head(s)) THEN <<Head(s)>> \o OnlyDigits(Tail(s))
    ELSE OnlyDigits(Tail(s))

RECURSIVE Without(_, _)
Without(s, ch) ==
    IF s = <<>> THEN <<>>
    ELSE IF Head(s) = ch THEN Without(Tail(s), ch)
    ELSE <<Head(s)>> \o Without(Tail(s), ch)

\* the longest prefix of digits / of spaces
RECURSIVE DigitPrefix(_)
DigitPrefix(s) ==
    IF s # <<>> /\ IsDigit(Head(s)) THEN <<Head(s)>> \o DigitPrefix(Tail(s)) ELSE <<>>

Drop(s, n) == SubSeq(s, n + 1, Len(s))

\* `sub in s`
Contains(s, sub) ==
    \E k \in 0..(Len(s) - Len(sub)) : SubSeq(s, k + 1, k + Len(sub)) = sub

\* s.strip("/")
RECURSIVE StripSlashes(_)
StripSlashes(s) ==
    IF s # <<>> /\ Head(s) = "/" THEN StripSlashes(Tail(s))
    ELSE IF s # <<>> /\ s[Len(s)] = "/" THEN StripSlashes(SubSeq(s, 1, Len(s) - 1))
    ELSE s

\* s.split(sep)[-1] and s.split(sep)[0]
RECURSIVE LastPiece(_, _)
LastPiece(s, sep) ==
    IF \E k \in 1..Len(s) : s[k] = sep
    THEN LastPiece(Drop(s, CHOOSE k \in 1..Len(s) : s[k] = sep /\ \A j \in 1..(k - 1) : s[j] # sep), sep)
    ELSE s

FirstPiece(s, sep) ==
    IF \E k \in 1..Len(s) : s[k] = sep
    THEN SubSeq(s, 1, (CHOOSE k \in 1..Len(s) : s[k] = sep /\ \A j \in 1..(k - 1) : s[j] # sep) - 1)
    ELSE s

IsLetter(c) == c \in DOMAIN LowerOf \/ c \in DOMAIN UpperOf

\* str.upper() on one character
UpperChar(c) == IF c \in DOMAIN UpperOf THEN UpperOf[c] ELSE c

\* str.title(): a letter is upper-cased after a non-letter, lower-cased after a letter
Title(s) ==
    [i \in 1..Len(s) |->
        IF i = 1 \/ ~IsLetter(s[i - 1]) THEN UpperChar(s[i]) ELSE LowerChar(s[i])]

\* s.replace("-", " ")
DashesToSpaces(s) == [i \in 1..Len(s) |-> IF s[i] = "-" THEN " " ELSE s[i]]

UnknownHandle == <<"u", "n", "k", "n", "o", "w", "n">>
UnknownCreator == <<"U", "n", "k", "n", "o", "w", "n", " ", "C", "r", "e", "a", "t", "o", "r">>

----------------------------------------------------------------------------
(* creatoriq_dom.py: the crawl record and its normalizer *)

\* re.match(r"([0-9]+(?:\.[0-9]+)?)\s*([KMB]?)", ..., re.IGNORECASE)
SuffixMultiplier(c) ==
    CASE c \in {"K", "k"} -> 1000
      [] c \in {"M", "m"} -> 1000000
      [] c \in {"B", "b"} -> 1000000000
      [] OTHER -> 1

\* int(number * multiplier) truncates a float product; the follower texts of
\* this model are ones whose product is exact ("2.01K" would give 2009)
parse_follower_count(raw_value) ==
    IF raw_value = <<>> THEN None
    ELSE LET normalized == Strip(Without(raw_value, ","))
             whole == DigitPrefix(normalized)
             after == Drop(normalized, Len(whole))
             fraction == IF Len(after) >= 2 /\ after[1] = "." /\ IsDigit(after[2])
                         THEN DigitPrefix(Tail(after)) ELSE <<>>
             rest == LStripWs(IF fraction = <<>> THEN after
                              ELSE Drop(after, 1 + Len(fraction)))
             multiplier == IF rest = <<>> THEN 1 ELSE SuffixMultiplier(rest[1])
         IN  IF whole = <<>>
             THEN LET digits == OnlyDigits(normalized)
                  IN  IF digits = <<>> THEN None ELSE Some(DigitsValue(digits))
             ELSE Some((DigitsValue(whole \o fraction) * multiplier) \div Pow10(Len(fraction)))

normalize_handle(handle) == Lower(Strip(LStripAt(handle)))

\* a card is [FullName, Handle, Platform, Followers, Details]; text fields
\* are text, Details is an option
normalize_dom_profile(profile) ==
    LET handle == normalize_handle(profile.Handle)
    IN  [ name |-> IF profile.FullName # <<>> THEN Some(profile.FullName)
                   ELSE IF handle # <<>> THEN Some(handle) ELSE Some(UnknownCreator),
          handle |-> IF handle # <<>> THEN Some(handle) ELSE Some(UnknownHandle),
          platform |-> IF profile.Platform # "" THEN Some(profile.Platform) ELSE Some("Unknown"),
          follower_count |-> parse_follower_count(profile.Followers),
          demographics |-> Some([kind |-> "dom", details |-> profile.Details]) ]

----------------------------------------------------------------------------
(* ingestion.py: the collection-API record and its normalizer *)

TruthyText(o) == o # None /\ Val(o) # <<>>
TruthyInt(o) == o # None /\ Val(o) # 0
TruthyName(o) == o # None /\ Val(o) # ""

\* a creator is [fullName, primarySocialUsername, listCreatorsId,
\* primaryNetwork, totalSocialConnections, account]; account is the first of
\* its accounts, or None when it has none
_normalize_creator_payload(creator) ==
    LET account == creator.account
        followers == IF account = None THEN None ELSE Val(account).followers
        network == IF account = None THEN None ELSE Val(account).network
    IN  [ name |-> IF TruthyText(creator.fullName) THEN creator.fullName
                   ELSE creator.primarySocialUsername,
          handle |-> IF TruthyText(creator.primarySocialUsername)
                     THEN creator.primarySocialUsername ELSE creator.listCreatorsId,
          platform |-> IF TruthyName(creator.primaryNetwork)
                       THEN creator.primaryNetwork ELSE network,
          follower_count |-> IF TruthyInt(creator.totalSocialConnections)
                             THEN creator.totalSocialConnections ELSE followers,
          demographics |-> Some(ApiDemographics) ]

\* the dict ingest_creatoriq_report hands to upsert_influencer
ApiUpsertArgument(profile) ==
    [ name |-> IF TruthyText(profile.name) THEN profile.name ELSE profile.handle,
      handle |-> profile.handle,
      platform |-> IF TruthyName(profile.platform) THEN profile.platform ELSE Some("Unknown"),
      follower_count |-> profile.follower_count,
      demographics |-> profile.demographics ]

----------------------------------------------------------------------------
(* creatoriq.py and scraping.py: links.  A link is given as urlparse splits
   it: [netloc, path], with the md5 fingerprint of its text (its last six
   decimal digits). *)

LinkText(link) == link.netloc \o link.path

is_creatoriq_link(link) == Contains(LinkText(link), <<"c", "r", "e", "a", "t", "o", "r", "i", "q", ".", "c", "o", "m">>)

\* re.search(r"/lists/report/([^/?#]+)", publish_link) finds a slug
HasSlug(link) ==
    LET text == LinkText(link)
        prefix == <<"/", "l", "i", "s", "t", "s", "/", "r", "e", "p", "o", "r", "t", "/">>
    IN  \E k \in 0..(Len(text) - Len(prefix) - 1) :
            /\ SubSeq(text, k + 1, k + Len(prefix)) = prefix
            /\ text[k + Len(prefix) + 1] \notin {"/", "?", "#"}

\* PLATFORM_HINTS in dict order
infer_platform(link) ==
    LET netloc == Lower(link.netloc)
    IN  IF Contains(netloc, <<"t", "i", "k", "t", "o", "k">>) THEN "TikTok"
        ELSE IF Contains(netloc, <<"i", "n", "s", "t", "a", "g", "r", "a", "m">>) THEN "Instagram"
        ELSE IF Contains(netloc, <<"f", "a", "c", "e", "b", "o", "o", "k">>) THEN "Facebook"
        ELSE IF Contains(netloc, <<"y", "o", "u", "t", "u", "b", "e">>) THEN "YouTube"
        ELSE IF Contains(netloc, <<"x", ".", "c", "o", "m">>) THEN "X"
        ELSE IF Contains(netloc, <<"t", "w", "i", "t", "t", "e", "r">>) THEN "X"
        ELSE "Unknown"

fetch_kol_profile(link) ==
    LET platform == infer_platform(link)
        slug == IF link.path # <<>> THEN LastPiece(StripSlashes(link.path), "/") ELSE <<>>
        handle == IF slug # <<>> THEN slug ELSE FirstPiece(link.netloc, ".")
        follower_count == 5000 + (link.md5 % 500000)
        titled == Title(DashesToSpaces(handle))
    IN  [ name |-> IF titled # <<>> THEN Some(titled) ELSE Some(UnknownCreator),
          handle |-> IF handle # <<>> THEN Some(handle) ELSE Some(UnknownHandle),
          platform |-> Some(platform),
          follower_count |-> Some(follower_count),
          demographics |-> Some([kind |-> "stub", details |-> Some("stub")]) ]

----------------------------------------------------------------------------
(* database.py: add_kol_source *)

\* publish_link.strip()
StripLink(link) == [link EXCEPT !.netloc = LStripWs(@), !.path = RStripWs(@)]

SourceRows(tbl, campaign_id, link) ==
    { i \in 1..Len(tbl) : tbl[i].campaign_id = campaign_id /\ tbl[i].publish_link = link }

\* INSERT INTO kol_sources ... ON CONFLICT(campaign_id, publish_link) DO UPDATE
\*   SET platform, status, raw_payload, updated_at = excluded.*
AddSourceAlwaysInserts(tbl, campaign_id, publish_link, platform, payload, status, now) ==
    Append(tbl, [id |-> Len(tbl) + 1, campaign_id |-> campaign_id,
                 publish_link |-> StripLink(publish_link), platform |-> platform,
                 status |-> status, raw_payload |-> JsonDumps(payload),
                 created_at |-> now, updated_at |-> now])

add_kol_source(tbl, campaign_id, publish_link, platform, payload, status, now) ==
    LET link == StripLink(publish_link)
        hit == SourceRows(tbl, campaign_id, link)
    IN  IF hit # {}
        THEN LET i == CHOOSE i \in hit : TRUE
             IN  [tbl EXCEPT ![i].platform = platform,
                             ![i].status = status,
                             ![i].raw_payload = JsonDumps(payload),
                             ![i].updated_at = now]
        ELSE Append(tbl, [id |-> Len(tbl) + 1, campaign_id |-> campaign_id,
                          publish_link |-> link, platform |-> platform,
                          status |-> status, raw_payload |-> JsonDumps(payload),
                          created_at |-> now, updated_at |-> now])

----------------------------------------------------------------------------
(* Inputs of the ingestion paths *)

CreatorIQLink == [netloc |-> <<"c", "r", "e", "a", "t", "o", "r", "i", "q", ".", "c", "o", "m">>, path |-> <<"/", "l", "i", "s", "t", "s", "/", "r", "e", "p", "o", "r", "t", "/", "x">>, md5 |-> 845782]
TikTokLink == [netloc |-> <<"t", "i", "k", "t", "o", "k", ".", "c", "o", "m">>, path |-> <<"/", "@", "A">>, md5 |-> 671127]
BareLink == [netloc |-> <<>>, path |-> <<"/">>, md5 |-> 158937]

Links == {CreatorIQLink, TikTokLink, BareLink}

\* the campaign whose page the analyst has open
ActiveCampaigns == {1}

\* cards as _extract_profile_card returns them; scrape_report keeps cards
\* with a non-empty Handle and no Handle twice
DomCards ==
    [ FullName : {<<"N">>},
      Handle : {<<"@", "A">>, <<"a">>, <<"@">>, <<"U", "n", "k", "n", "o", "w", "n">>},
      Platform : {"TikTok"},
      Followers : {<<"5", "K">>},
      Details : {Some("details")} ]

\* creators as fetch_creators returns them, after CreatorRecord.merged()
ApiCreators ==
    [ fullName : {Some(<<"N">>)},
      primarySocialUsername : {None, Some(<<"@", "A">>), Some(<<" ">>)},
      listCreatorsId : {None, Some(<<"7">>)},
      primaryNetwork : {Some("TikTok")},
      totalSocialConnections : {Some(0)},
      account : {Some([followers |-> Some(12300), network |-> Some("Instagram")])} ]

----------------------------------------------------------------------------
(* Handlers of ingestion.py and app.py.  An import is its record loop: one
   step per record the source yields, then the step that logs the import. *)

InLoop(op) == result.op = op

\* the handle test of ingest_creatoriq_report (line 56)
ApiSkips(profile) == ~TruthyText(profile.handle)

\* the handle test of ingest_creatoriq_report_dom (line 106)
DomSkipsEmptyOnly(normalized) == ~TruthyText(normalized.handle)

DomSkips(normalized) ==
    ~TruthyText(normalized.handle) \/ Val(normalized.handle) = UnknownHandle

\* upsert_influencer followed by ensure_campaign_influencer on the returned id
\* the tables can take the rows (the model's cap on table sizes)
RoomFor(profile, campaign_id) ==
    LET hit == InfluencerRows(influencers, UpsertHandle(profile), UpsertPlatform(profile))
    IN  IF hit = {}
        THEN Len(influencers) < MaxRows /\ Len(campaign_influencers) < MaxRows
        ELSE \/ Len(campaign_influencers) < MaxRows
             \/ \E i \in hit : AssociationRows(campaign_influencers, campaign_id,
                                               influencers[i].id) # {}

UpsertAndEnsure(profile, campaign_id) ==
    LET influencer == Val(SelectInfluencer(influencers', UpsertHandle(profile),
                                           UpsertPlatform(profile)))
    IN  /\ RoomFor(profile, campaign_id)
        /\ influencers' = UpsertTable(influencers, profile, clock)
        /\ campaign_influencers' =
               InsertOrTouchAssociation(campaign_influencers, campaign_id,
                                        influencer.id, clock)

\* campaign_influencer["campaign_influencer_id"] of the row just ensured
EnsuredId(profile, campaign_id) ==
    LET influencer == Val(SelectInfluencer(influencers', UpsertHandle(profile),
                                           UpsertPlatform(profile)))
    IN  Val(SelectAssociation(campaign_influencers', campaign_id, influencer.id)).id

Loop(op, campaign_id, link) ==
    [op |-> op, campaign_id |-> campaign_id, link |-> link, imported_ids |-> <<>>,
     warnings |-> 0, yielded |-> <<>>, seen |-> {}]

Summary(op) ==
    [op |-> op, ok |-> TRUE, campaign_id |-> result.campaign_id, link |-> result.link,
     count |-> Len(result.imported_ids), warnings |-> result.warnings,
     yielded |-> result.yielded]

Raised(op) == [op |-> op, ok |-> FALSE]

\* ingest_creatoriq_report_dom, lines 93-102
DomBegin(campaign_id, link) ==
    /\ result.op = "idle"
    /\ result' = IF is_creatoriq_link(link)
                 THEN Loop("dom_loop", campaign_id, link) ELSE Raised("dom")
    /\ UNCHANGED <<influencers, campaign_influencers, kol_sources, clock>>
    /\ Sequential

\* lines 103-111, one iteration
DomRecord(profile) ==
    LET normalized == normalize_dom_profile(profile)
    IN  /\ InLoop("dom_loop")
        /\ Len(result.yielded) < MaxBatch
        /\ profile.Handle \notin result.seen
        /\ IF DomSkips(normalized)
           THEN /\ result' = [result EXCEPT !.warnings = @ + 1,
                                            !.yielded = Append(@, normalized.handle),
                                            !.seen = @ \cup {profile.Handle}]
                /\ UNCHANGED <<influencers, campaign_influencers>>
           ELSE /\ UpsertAndEnsure(normalized, result.campaign_id)
                /\ result' = [result EXCEPT
                       !.imported_ids = Append(@, EnsuredId(normalized, result.campaign_id)),
                       !.yielded = Append(@, normalized.handle),
                       !.seen = @ \cup {profile.Handle}]
        /\ UNCHANGED <<kol_sources, clock>>
        /\ Sequential

\* lines 112-119
DomFinish ==
    /\ InLoop("dom_loop")
    /\ \/ Len(kol_sources) < MaxRows
       \/ SourceRows(kol_sources, result.campaign_id, StripLink(result.link)) # {}
    /\ kol_sources' = add_kol_source(kol_sources, result.campaign_id, result.link,
                                     "CreatorIQ (DOM)",
                                     [kind |-> "profiles"],
                                     "imported", clock)
    /\ result' = Summary("dom")
    /\ UNCHANGED <<influencers, campaign_influencers, clock>>
    /\ Sequential

\* ingest_creatoriq_report, lines 41-48
ApiBegin(campaign_id, link) ==
    /\ result.op = "idle"
    /\ result' = IF is_creatoriq_link(link) /\ HasSlug(link)
                 THEN Loop("api_loop", campaign_id, link) ELSE Raised("api")
    /\ UNCHANGED <<influencers, campaign_influencers, kol_sources, clock>>
    /\ Sequential

\* lines 50-70, one iteration
ApiRecord(creator) ==
    LET profile == _normalize_creator_payload(creator)
    IN  /\ InLoop("api_loop")
        /\ Len(result.yielded) < MaxBatch
        /\ IF ApiSkips(profile)
           THEN /\ result' = [result EXCEPT !.warnings = @ + 1,
                                            !.yielded = Append(@, profile.handle)]
                /\ UNCHANGED <<influencers, campaign_influencers>>
           ELSE /\ UpsertAndEnsure(ApiUpsertArgument(profile), result.campaign_id)
                /\ result' = [result EXCEPT
                       !.imported_ids = Append(@, EnsuredId(ApiUpsertArgument(profile),
                                                            result.campaign_id)),
                       !.yielded = Append(@, profile.handle)]
        /\ UNCHANGED <<kol_sources, clock>>
        /\ Sequential

\* lines 72-79
ApiFinish ==
    /\ InLoop("api_loop")
    /\ \/ Len(kol_sources) < MaxRows
       \/ SourceRows(kol_sources, result.campaign_id, StripLink(result.link)) # {}
    /\ kol_sources' = add_kol_source(kol_sources, result.campaign_id, result.link,
                                     "CreatorIQ",
                                     [kind |-> "imported_ids"],
                                     "imported", clock)
    /\ result' = Summary("api")
    /\ UNCHANGED <<influencers, campaign_influencers, clock>>
    /\ Sequential

\* app.py, render_campaign_ingestion_controls, lines 1238-1279: a link that
\* is not a CreatorIQ link goes to the stub fetcher
IngestProfileLink(campaign_id, link) ==
    LET profile == fetch_kol_profile(link)
    IN  /\ result.op = "idle"
        /\ LinkText(link) # <<>>
        /\ ~is_creatoriq_link(link)
        /\ UpsertAndEnsure(profile, campaign_id)
        /\ \/ Len(kol_sources) < MaxRows
           \/ SourceRows(kol_sources, campaign_id, StripLink(link)) # {}
        /\ kol_sources' = add_kol_source(kol_sources, campaign_id, link,
                                         Val(profile.platform),
                                         [kind |-> "profile"], "ingested", clock)
        /\ result' = [op |-> "stub", ok |-> TRUE, campaign_id |-> campaign_id,
                      link |-> link, profile |-> profile]
        /\ UNCHANGED clock
        /\ Sequential

\* app.py line 1383: a creator picked from the pool is added to the campaign
AddSelectedKol(campaign_id, influencer_id) ==
    ensure_campaign_influencer(campaign_id, influencer_id)

\* a caller of the store saves a built score payload on a row
SaveScores(campaign_influencer_id, payload) ==
    save_campaign_influencer_scores(campaign_influencer_id, payload)

NextIngest ==
    \/ Return
    \/ \E c \in ActiveCampaigns, link \in Links : DomBegin(c, link)
    \/ \E profile \in DomCards : DomRecord(profile)
    \/ DomFinish
    \/ \E c \in ActiveCampaigns, link \in Links : ApiBegin(c, link)
    \/ \E creator \in ApiCreators : ApiRecord(creator)
    \/ ApiFinish
    \/ \E c \in ActiveCampaigns, link \in Links : IngestProfileLink(c, link)
    \/ \E c \in ActiveCampaigns, i \in 1..Len(influencers) : AddSelectedKol(c, i)
    \/ \E id \in 1..Len(campaign_influencers), payload \in ScorePayloads :
           SaveScores(id, payload)

SpecIngest == Init /\ [][NextIngest]_vars

----------------------------------------------------------------------------
(* Claims about upsert_influencer, checked under Spec *)

UpsertReturned == result.op = "upsert" /\ result.ok

\* the stored row already carries exactly the data of the incoming profile
SameData(profile, row) ==
    /\ row.name = UpsertName(profile)
    /\ row.follower_count = profile.follower_count
    /\ row.demographics_json = UpsertDemographics(profile)

\* C1: an incoming null follower_count or null/empty demographics never
\* replaces a stored non-null value: after an upsert over an existing record
\* the stored follower_count and demographics are the old ones whenever the
\* incoming ones are null.
C1_NullsNeverOverwrite ==
    (UpsertReturned /\ result.prev # None) =>
        LET prev == Val(result.prev)
            ret == Val(result.ret)
        IN  /\ (IsNone(result.arg.follower_count) /\ prev.follower_count # None)
                   => ret.follower_count = prev.follower_count
            /\ (IsNone(result.arg.demographics)
                    /\ prev.demographics_json # JsonDumps(EmptyDict))
                   => ret.demographics_json = prev.demographics_json

\* C3: the store holds at most one record per (lower-cased handle, platform);
\* an upsert returns the record stored under the stripped, lower-cased handle
\* of its argument, and a key with no record gets a new one.
C3_OneRecordPerKey ==
    /\ \A i, j \in 1..Len(influencers) :
           (/\ Lower(Strip(influencers[i].handle)) = Lower(Strip(influencers[j].handle))
            /\ influencers[i].platform = influencers[j].platform) => i = j
    /\ UpsertReturned =>
           /\ result.ret # None
           /\ Val(result.ret).handle = Lower(Strip(Val(result.arg.handle)))
           /\ Val(result.ret).platform = Val(result.arg.platform)
           /\ \E i \in 1..Len(influencers) : influencers[i] = Val(result.ret)
           /\ result.prev # None => Val(result.ret).id = Val(result.prev).id

\* a handle differing in case and whitespace from the stored one was upserted
\* over it, and no second record appeared
C3_Witness ==
    /\ UpsertReturned
    /\ result.prev # None
    /\ Val(result.arg.handle) # Val(result.prev).handle
    /\ Len(influencers) = 1

\* C4: upserting over a record that already carries the same data leaves one
\* record for the key, with every field unchanged except last_seen_at, which
\* does not move backwards.
C4_UpsertIdempotent ==
    (UpsertReturned /\ result.prev # None /\ SameData(result.arg, Val(result.prev))) =>
        LET prev == Val(result.prev)
            ret == Val(result.ret)
        IN  /\ ret = [prev EXCEPT !.last_seen_at = ret.last_seen_at]
            /\ ret.last_seen_at >= prev.last_seen_at
            /\ Cardinality(InfluencerRows(influencers, ret.handle, ret.platform)) = 1
            /\ influencers[ret.id] = ret

C4_Witness ==
    /\ UpsertReturned
    /\ result.prev # None
    /\ SameData(result.arg, Val(result.prev))
    /\ Val(result.ret).last_seen_at > Val(result.prev).last_seen_at

----------------------------------------------------------------------------
(* Concurrent callers of database.py.  Each worker runs one call at a time
   on its own connection; a call is three steps: read _now() and bind the
   parameters, execute the statement and commit, run the SELECT and return. *)

\* two imports racing, each on its own worker
Workers == {1, 2}

\* profiles two imports may race on: one key under different spellings and
\* data, and a second key
RacingProfiles ==
    { [name |-> Some(<<"N">>), handle |-> Some(<<"a">>), platform |-> Some("Instagram"),
       follower_count |-> Some(5000), demographics |-> Some(ApiDemographics)],
      [name |-> Some(<<"M", " ">>), handle |-> Some(<<" ", "A", " ">>),
       platform |-> Some("Instagram"), follower_count |-> Some(12300),
       demographics |-> None],
      [name |-> Some(<<"N">>), handle |-> Some(<<"a">>), platform |-> Some("TikTok"),
       follower_count |-> None, demographics |-> None] }

NoCall == [op |-> "none", arg |-> None, now |-> 0, ret |-> None]

StoreOnly == UNCHANGED <<kol_sources, result>>

WTick ==
    /\ clock < MaxClock
    /\ clock' = clock + 1
    /\ UNCHANGED <<influencers, campaign_influencers, pc, call, history>>
    /\ StoreOnly

\* upsert_influencer, lines 251-254: now = _now(), parameters bound
UpsertBegin(w, profile) ==
    /\ pc[w] = "idle"
    /\ history.calls < MaxCalls
    /\ ~UpsertRaises(profile)
    /\ pc' = [pc EXCEPT ![w] = "upsert_execute"]
    /\ call' = [call EXCEPT ![w] = [op |-> "upsert", arg |-> profile, now |-> clock,
                                    ret |-> None]]
    /\ history' = [history EXCEPT !.calls = @ + 1]
    /\ UNCHANGED <<influencers, campaign_influencers, clock>>
    /\ StoreOnly

\* lines 256-275: conn.execute(INSERT ... ON CONFLICT ...) and conn.commit()
UpsertExecute(w) ==
    /\ pc[w] = "upsert_execute"
    /\ influencers' = UpsertTable(influencers, call[w].arg, call[w].now)
    /\ history' = [history EXCEPT !.written = @ \cup {call[w].arg}]
    /\ pc' = [pc EXCEPT ![w] = "upsert_select"]
    /\ UNCHANGED <<campaign_influencers, clock, call>>
    /\ StoreOnly

\* lines 276-280: the SELECT and the returned row
UpsertSelect(w) ==
    /\ pc[w] = "upsert_select"
    /\ call' = [call EXCEPT ![w].ret =
                    SelectInfluencer(influencers, UpsertHandle(call[w].arg),
                                     UpsertPlatform(call[w].arg))]
    /\ pc' = [pc EXCEPT ![w] = "idle"]
    /\ UNCHANGED <<influencers, campaign_influencers, clock, history>>
    /\ StoreOnly

\* ensure_campaign_influencer, line 284: now = _now()
EnsureBegin(w, campaign_id, influencer_id) ==
    /\ pc[w] = "idle"
    /\ history.calls < MaxCalls
    /\ pc' = [pc EXCEPT ![w] = "ensure_execute"]
    /\ call' = [call EXCEPT ![w] = [op |-> "ensure", arg |-> <<campaign_id, influencer_id>>,
                                    now |-> clock, ret |-> None]]
    /\ history' = [history EXCEPT !.calls = @ + 1]
    /\ UNCHANGED <<influencers, campaign_influencers, clock>>
    /\ StoreOnly

\* lines 286-295: conn.execute(INSERT ... ON CONFLICT ...) and conn.commit()
EnsureExecute(w) ==
    /\ pc[w] = "ensure_execute"
    /\ campaign_influencers' =
           InsertOrTouchAssociation(campaign_influencers, call[w].arg[1], call[w].arg[2],
                                    call[w].now)
    /\ pc' = [pc EXCEPT ![w] = "ensure_select"]
    /\ UNCHANGED <<influencers, clock, call, history>>
    /\ StoreOnly

\* lines 296-330: the SELECT and the returned row
EnsureSelect(w) ==
    /\ pc[w] = "ensure_select"
    /\ call' = [call EXCEPT ![w].ret =
                    SelectAssociation(campaign_influencers, call[w].arg[1], call[w].arg[2])]
    /\ pc' = [pc EXCEPT ![w] = "idle"]
    /\ UNCHANGED <<influencers, campaign_influencers, clock, history>>
    /\ StoreOnly

InitConc ==
    /\ InitStore
    /\ pc = [w \in Workers |-> "idle"]
    /\ call = [w \in Workers |-> NoCall]
    /\ history = [written |-> {}, calls |-> 0]

NextConc ==
    \/ WTick
    \/ \E w \in Workers, profile \in RacingProfiles : UpsertBegin(w, profile)
    \/ \E w \in Workers : UpsertExecute(w)
    \/ \E w \in Workers : UpsertSelect(w)
    \/ \E w \in Workers, c \in Campaigns, i \in 1..Len(influencers) : EnsureBegin(w, c, i)
    \/ \E w \in Workers : EnsureExecute(w)
    \/ \E w \in Workers : EnsureSelect(w)

SpecConc == InitConc /\ [][NextConc]_vars

----------------------------------------------------------------------------
(* Claims about concurrent calls, checked under SpecConc *)

Finished(w, op) == pc[w] = "idle" /\ call[w].op = op

\* C2: under every interleaving of concurrent upserts no call fails (each
\* returns the row of its key), the store holds exactly one record per key,
\* and each record's name, follower_count and demographics all come from
\* one single committed call.
C2_AtomicUpsert ==
    /\ \A i, j \in 1..Len(influencers) :
           (/\ influencers[i].handle = influencers[j].handle
            /\ influencers[i].platform = influencers[j].platform) => i = j
    /\ \A i \in 1..Len(influencers) :
           \E p \in history.written :
               /\ UpsertHandle(p) = influencers[i].handle
               /\ UpsertPlatform(p) = influencers[i].platform
               /\ SameData(p, influencers[i])
    /\ \A p \in history.written :
           Cardinality(InfluencerRows(influencers, UpsertHandle(p), UpsertPlatform(p))) = 1
    /\ \A w \in Workers :
           Finished(w, "upsert") =>
               /\ call[w].ret # None
               /\ Val(call[w].ret).handle = UpsertHandle(call[w].arg)
               /\ Val(call[w].ret).platform = UpsertPlatform(call[w].arg)

\* two upserts of one key with different data overlapped: worker 1 read the
\* clock first and committed last, and the record carries its data alone
C2_Witness ==
    /\ Finished(1, "upsert") /\ Finished(2, "upsert")
    /\ UpsertHandle(call[1].arg) = UpsertHandle(call[2].arg)
    /\ UpsertPlatform(call[1].arg) = UpsertPlatform(call[2].arg)
    /\ call[1].arg # call[2].arg
    /\ call[1].now < call[2].now
    /\ Val(call[1].ret).last_seen_at = call[1].now
    /\ SameData(call[1].arg, Val(call[1].ret))
    /\ Len(influencers) = 1

\* C7: under every interleaving of concurrent ensure_campaign_influencer
\* calls no call fails, exactly one association row exists per (campaign,
\* creator) pair that was ensured, and every caller of a pair gets that row's
\* identifier.
C7_AtomicEnsure ==
    /\ \A i, j \in 1..Len(campaign_influencers) :
           (/\ campaign_influencers[i].campaign_id = campaign_influencers[j].campaign_id
            /\ campaign_influencers[i].influencer_id = campaign_influencers[j].influencer_id)
               => i = j
    /\ \A w \in Workers :
           (call[w].op = "ensure" /\ pc[w] # "ensure_execute") =>
               Cardinality(AssociationRows(campaign_influencers,
                                           call[w].arg[1], call[w].arg[2])) = 1
    /\ \A w \in Workers :
           Finished(w, "ensure") =>
               /\ call[w].ret # None
               /\ Val(call[w].ret).campaign_id = call[w].arg[1]
               /\ Val(call[w].ret).influencer_id = call[w].arg[2]
               /\ AssociationRows(campaign_influencers, call[w].arg[1], call[w].arg[2])
                      = {Val(call[w].ret).id}
    /\ \A v, w \in Workers :
           (Finished(v, "ensure") /\ Finished(w, "ensure") /\ call[v].arg = call[w].arg)
               => Val(call[v].ret).id = Val(call[w].ret).id

\* two ensures of one pair overlapped: worker 1 read the clock first and
\* committed last, and both got the one row
C7_Witness ==
    /\ Finished(1, "ensure") /\ Finished(2, "ensure")
    /\ call[1].arg = call[2].arg
    /\ call[1].now < call[2].now
    /\ Val(call[2].ret).updated_at = call[1].now
    /\ Val(call[1].ret).id = Val(call[2].ret).id
    /\ Len(campaign_influencers) = 1

----------------------------------------------------------------------------
(* The campaign page: creators are upserted into the pool, added to a
   campaign and scored, one call after another *)

\* the creators of the pool: one handle on two platforms
PoolProfiles == { p \in RacingProfiles : Val(p.handle) = <<"a">> }

NextAssoc ==
    \/ Tick
    \/ Return
    \/ \E profile \in PoolProfiles : upsert_influencer(profile)
    \/ \E c \in ActiveCampaigns, i \in 1..Len(influencers) : AddSelectedKol(c, i)
    \/ \E id \in 1..Len(campaign_influencers), payload \in ScorePayloads :
           SaveScores(id, payload)

SpecAssoc == Init /\ [][NextAssoc]_vars

EnsureReturned == result.op = "ensure" /\ result.ok

\* C6: ensure_campaign_influencer is idempotent: the first call for a pair
\* creates one row whose score fields are all null; every later call for the
\* pair creates no row and returns the existing row with its id, every score
\* field, the notes and created_at unchanged, updated_at not moving back.
C6_EnsureIdempotent ==
    EnsureReturned =>
        /\ result.ret # None
        /\ AssociationRows(campaign_influencers, result.arg[1], result.arg[2])
               = {Val(result.ret).id}
        /\ campaign_influencers[Val(result.ret).id] = Val(result.ret)
        /\ result.prev = None =>
               /\ Val(result.ret).scores = NullScores
               /\ Val(result.ret).created_at = clock
               /\ Val(result.ret).updated_at = clock
        /\ result.prev # None =>
               /\ Val(result.ret) = [Val(result.prev) EXCEPT !.updated_at = clock]
               /\ Val(result.ret).updated_at >= Val(result.prev).updated_at

\* a pair whose scores had been saved was ensured again at a later second:
\* the row came back with its scores and a newer updated_at
C6_Witness ==
    /\ EnsureReturned
    /\ result.prev # None
    /\ Val(result.prev).scores # NullScores
    /\ Val(result.ret).scores = Val(result.prev).scores
    /\ Val(result.ret).updated_at > Val(result.prev).updated_at
    /\ Len(campaign_influencers) = 2

----------------------------------------------------------------------------
(* Claims about the ingestion paths, checked under SpecIngest *)

\* C5: every handle stored by any ingestion path is lower-cased with its
\* leading '@' stripped, so one creator on one platform fetched through two
\* paths is one stored record.
C5_StoredHandlesNormalized ==
    /\ \A i \in 1..Len(influencers) :
           influencers[i].handle = normalize_handle(influencers[i].handle)
    /\ \A i, j \in 1..Len(influencers) :
           (/\ normalize_handle(influencers[i].handle) = normalize_handle(influencers[j].handle)
            /\ influencers[i].platform = influencers[j].platform) => i = j

\* C10: no ingestion path stores a creator whose handle is empty or the
\* "unknown" placeholder.
C10_NoUnusableHandleStored ==
    \A i \in 1..Len(influencers) :
        /\ influencers[i].handle # <<>>
        /\ influencers[i].handle # UnknownHandle

ImportReturned == result.op \in {"dom", "api"} /\ result.ok

\* a record's handle as its normalizer returned it is unusable when it is
\* missing, empty, or (crawl records) the "unknown" placeholder
Unusable(op, handle) ==
    \/ handle = None
    \/ Val(handle) = <<>>
    \/ op = "dom" /\ Val(handle) = UnknownHandle

UnusableRecords ==
    { k \in 1..Len(result.yielded) : Unusable(result.op, result.yielded[k]) }

C8_ScoresChangedOnlyBySave ==
    [][ /\ Len(campaign_influencers') >= Len(campaign_influencers)
        /\ \A i \in 1..Len(campaign_influencers) :
               /\ campaign_influencers'[i].id = campaign_influencers[i].id
               /\ campaign_influencers'[i].campaign_id = campaign_influencers[i].campaign_id
               /\ campaign_influencers'[i].influencer_id = campaign_influencers[i].influencer_id
               /\ campaign_influencers'[i].scores # campaign_influencers[i].scores
                      => /\ result'.op = "save"
                         /\ result'.arg[1] = campaign_influencers[i].id ]_vars

\* a crawl re-import has just upserted and ensured a creator whose scores in
\* the campaign had been saved, and the scores are still there
C8_Witness ==
    /\ result.op = "dom_loop"
    /\ \E k \in 1..Len(result.imported_ids) :
           campaign_influencers[result.imported_ids[k]].scores # NullScores

----------------------------------------------------------------------------
(* Imports that can fail.  The crawl and the collection query run before the
   record loop, so a source error leaves the call before any record; inside
   the loop each database call opens its own session and commits on its own,
   and any of them can raise (sqlite3.OperationalError on a locked file,
   IntegrityError on a missing campaign, AttributeError on a non-text handle). *)

\* cards of a crawl whose detail pass failed for some profiles: a card whose
\* visit_and_search returned False has no Details
CrawlCards ==
    [ FullName : {<<"N">>},
      Handle : {<<"@", "A">>, <<"b">>, <<"@">>},
      Platform : {"TikTok"},
      Followers : {<<"5", "K">>},
      Details : {None, Some("details")} ]

ImportCreators == { c \in ApiCreators : c.listCreatorsId = None }

\* what the caller sees of an import that raised inside its loop, with the
\* loop's locals at the time of the error
Failed(op, stage, argument) ==
    [op |-> op, ok |-> FALSE, campaign_id |-> result.campaign_id,
     imported_ids |-> result.imported_ids, stage |-> stage, arg |-> argument]

\* scraper.scrape_report raises (driver, page load)
DomSourceError(campaign_id, link) ==
    /\ result.op = "idle"
    /\ is_creatoriq_link(link)
    /\ result' = Raised("dom")
    /\ UNCHANGED <<influencers, campaign_influencers, kol_sources, clock>>
    /\ Sequential

\* client.fetch_creators raises CreatorIQError
ApiSourceError(campaign_id, link) ==
    /\ result.op = "idle"
    /\ is_creatoriq_link(link) /\ HasSlug(link)
    /\ result' = Raised("api")
    /\ UNCHANGED <<influencers, campaign_influencers, kol_sources, clock>>
    /\ Sequential

\* a record's upsert_influencer raises, or it commits and the record's
\* ensure_campaign_influencer raises
RecordError(op, argument) ==
    /\ \/ /\ UNCHANGED influencers
          /\ result' = Failed(op, "upsert", argument)
       \/ /\ \/ Len(influencers) < MaxRows
             \/ InfluencerRows(influencers, UpsertHandle(argument),
                               UpsertPlatform(argument)) # {}
          /\ influencers' = UpsertTable(influencers, argument, clock)
          /\ result' = Failed(op, "ensure", argument)
    /\ UNCHANGED <<campaign_influencers, kol_sources, clock>>
    /\ Sequential

DomRecordError(profile) ==
    LET normalized == normalize_dom_profile(profile)
    IN  /\ InLoop("dom_loop")
        /\ Len(result.yielded) < MaxBatch
        /\ profile.Handle \notin result.seen
        /\ ~DomSkips(normalized)
        /\ RecordError("dom", normalized)

ApiRecordError(creator) ==
    LET profile == _normalize_creator_payload(creator)
    IN  /\ InLoop("api_loop")
        /\ Len(result.yielded) < MaxBatch
        /\ ~ApiSkips(profile)
        /\ RecordError("api", ApiUpsertArgument(profile))

NextImport ==
    \/ Return
    \/ \E c \in ActiveCampaigns, link \in Links : DomBegin(c, link)
    \/ \E c \in ActiveCampaigns, link \in Links : DomSourceError(c, link)
    \/ \E profile \in CrawlCards : DomRecord(profile)
    \/ \E profile \in CrawlCards : DomRecordError(profile)
    \/ DomFinish
    \/ \E c \in ActiveCampaigns, link \in Links : ApiBegin(c, link)
    \/ \E c \in ActiveCampaigns, link \in Links : ApiSourceError(c, link)
    \/ \E creator \in ImportCreators : ApiRecord(creator)
    \/ \E creator \in ImportCreators : ApiRecordError(creator)
    \/ ApiFinish

SpecImport == Init /\ [][NextImport]_vars

----------------------------------------------------------------------------
(* The import log: every path that writes kol_sources, over the seconds of
   the clock *)

\* one crawl card and one API creator stand for the batches
LoggedCards == { c \in CrawlCards : c.Handle = <<"@", "A">> /\ c.Details # None }

LoggedCreators == { c \in ImportCreators : c.primarySocialUsername = Some(<<"@", "A">>) }

NextSources ==
    \/ Tick
    \/ Return
    \/ \E c \in ActiveCampaigns, link \in Links : DomBegin(c, link)
    \/ \E profile \in LoggedCards : DomRecord(profile)
    \/ DomFinish
    \/ \E c \in ActiveCampaigns, link \in Links : ApiBegin(c, link)
    \/ \E creator \in LoggedCreators : ApiRecord(creator)
    \/ ApiFinish
    \/ \E c \in ActiveCampaigns, link \in Links : IngestProfileLink(c, link)

SpecSources == Init /\ [][NextSources]_vars

----------------------------------------------------------------------------
(* Claims about failing imports, checked under SpecImport *)

ImportFailed == result.op \in {"dom", "api"} /\ ~result.ok /\ "stage" \in DOMAIN result

\* C11: when an import raises while processing a record, the loop is left
\* (no later record is processed, no import record is written), every
\* creator and association stored before the step is still stored unchanged,
\* a creator whose upsert committed before the error is stored whole, and the
\* caller gets the error.
C11_FailureKeepsEarlierWork ==
    [][ (result'.op \in {"dom", "api"} /\ ~result'.ok /\ "stage" \in DOMAIN result') =>
          LET arg == result'.arg
              key == InfluencerRows(influencers', UpsertHandle(arg), UpsertPlatform(arg))
          IN  /\ result.op \in {"dom_loop", "api_loop"}
              /\ kol_sources' = kol_sources
              /\ campaign_influencers' = campaign_influencers
              /\ Len(influencers') >= Len(influencers)
              /\ \A i \in 1..Len(influencers) :
                     i \notin key => influencers'[i] = influencers[i]
              /\ \A k \in 1..Len(result'.imported_ids) :
                     /\ result'.imported_ids[k] \in 1..Len(campaign_influencers')
                     /\ campaign_influencers'[result'.imported_ids[k]].influencer_id
                            \in 1..Len(influencers')
              /\ result'.stage = "upsert" => influencers' = influencers
              /\ result'.stage = "ensure" =>
                     /\ Cardinality(key) = 1
                     /\ \A i \in key : SameData(arg, influencers'[i]) ]_vars

\* the second record of a crawl raised at its ensure step after its upsert
\* had committed; the first record's creator and association are stored
C11_Witness ==
    /\ ImportFailed
    /\ result.op = "dom"
    /\ result.stage = "ensure"
    /\ Len(result.imported_ids) = 1
    /\ Len(influencers) = 2
    /\ Len(campaign_influencers) = 1

\* C12: a crawl record whose detail fetch failed is stored without a details
\* map and the import reports one warning for it.
C12_DetailFailureWarned ==
    [][ (/\ result.op = "dom_loop"
         /\ result'.op = "dom_loop"
         /\ Len(result'.imported_ids) = Len(result.imported_ids) + 1) =>
          LET id == result'.imported_ids[Len(result'.imported_ids)]
              row == influencers'[campaign_influencers'[id].influencer_id]
          IN  row.demographics_json = JsonDumps([kind |-> "dom", details |-> None])
                  => result'.warnings = result.warnings + 1 ]_vars

----------------------------------------------------------------------------
(* Claims about the import log, checked under SpecSources *)

Logged == result.op \in {"dom", "api", "stub"} /\ result.ok

\* C13: kol_sources holds at most one record per (campaign, stripped link);
\* only a completed import writes it, and writes exactly its own record:
\* a new one, or the existing one with platform, status, payload and
\* updated_at replaced and created_at kept; no record is ever removed.
C13_OneImportRecordPerLink ==
    [][ /\ \A i, j \in 1..Len(kol_sources') :
               (/\ kol_sources'[i].campaign_id = kol_sources'[j].campaign_id
                /\ kol_sources'[i].publish_link = kol_sources'[j].publish_link) => i = j
        /\ Len(kol_sources') >= Len(kol_sources)
        /\ \A i \in 1..Len(kol_sources) :
               /\ kol_sources'[i].id = kol_sources[i].id
               /\ kol_sources'[i].campaign_id = kol_sources[i].campaign_id
               /\ kol_sources'[i].publish_link = kol_sources[i].publish_link
               /\ kol_sources'[i].created_at = kol_sources[i].created_at
        /\ kol_sources' # kol_sources =>
               /\ result'.op \in {"dom", "api", "stub"} /\ result'.ok
               /\ Len(kol_sources') <= Len(kol_sources) + 1
               /\ \A i \in 1..Len(kol_sources') :
                      (i > Len(kol_sources) \/ kol_sources'[i] # kol_sources[i]) =>
                          /\ kol_sources'[i].campaign_id = result'.campaign_id
                          /\ kol_sources'[i].publish_link = StripLink(result'.link)
                          /\ kol_sources'[i].updated_at = clock
        /\ (result'.op \in {"dom", "api", "stub"} /\ result'.ok /\ result.op # result'.op) =>
               \E i \in 1..Len(kol_sources') :
                   /\ kol_sources'[i].campaign_id = result'.campaign_id
                   /\ kol_sources'[i].publish_link = StripLink(result'.link)
                   /\ kol_sources'[i].updated_at = clock
                   /\ kol_sources'[i].status =
                          (IF result'.op = "stub" THEN "ingested" ELSE "imported") ]_vars

\* a link imported through the API path was re-imported by the crawl path at
\* a later second: one record, created then, updated now, platform replaced
C13_Witness ==
    /\ Logged
    /\ result.op = "dom"
    /\ Len(kol_sources) = 1
    /\ kol_sources[1].platform = "CreatorIQ (DOM)"
    /\ kol_sources[1].created_at < kol_sources[1].updated_at

----------------------------------------------------------------------------
(* scoring.py: the composite scorer.  A score is an integer number of
   hundredths (3.5 is 350); an engagement rate is hundredths of a percent. *)

Max(a, b) == IF a >= b THEN a ELSE b
Min(a, b) == IF a <= b THEN a ELSE b

\* max(1.0, min(5.0, float(score)))
_clamp(score) == Max(100, Min(500, score))

RECURSIVE Sum(_)
Sum(values) == IF values = <<>> THEN 0 ELSE Head(values) + Sum(Tail(values))

\* round(num / den, 2) on hundredths; the inputs of the model never fall on
\* a half
Round2(q) == (2 * q.num + q.den) \div (2 * q.den)

\* [float(value) for value in values if value is not None]
Present(values) == SelectSeq(values, LAMBDA v : v # None)

Values(options) == [i \in 1..Len(options) |-> Val(options[i])]

_average(values) ==
    LET cleaned == Values(Present(values))
    IN  IF cleaned = <<>> THEN [num |-> 0, den |-> 1]
        ELSE [num |-> Sum(cleaned), den |-> Len(cleaned)]

compute_content_score(originality, creativity, balance) ==
    Round2(_average(<< Some(_clamp(originality)), Some(_clamp(creativity)),
                       IF balance # None THEN Some(_clamp(Val(balance))) ELSE None >>))

\* compute_authority_score and compute_values_score share one body
ClampedMean(components) ==
    LET cleaned == [i \in 1..Len(Present(components)) |-> _clamp(Val(Present(components)[i]))]
    IN  IF cleaned = <<>> THEN 0
        ELSE Round2([num |-> Sum(cleaned), den |-> Len(cleaned)])

compute_authority_score(components) == ClampedMean(components)

compute_values_score(components) == ClampedMean(components)

compute_total_score(reach_score, interest_score, engagement_score, content_score, authority_score, values_score) ==
    _clamp(reach_score) + _clamp(interest_score) + _clamp(engagement_score)
        + content_score + authority_score + values_score

\* the keyword-only parameters of build_score_payload
BuildScoreParameters ==
    {"reach_score", "interest_score", "engagement_rate", "engagement_score",
     "content_originality", "content_creativity", "authority_overall",
     "values_overall", "qualitative_notes"}

\* a call with other keywords, or without one of these, raises TypeError
BuildScoreRaises(kwargs) == DOMAIN kwargs # BuildScoreParameters

build_score_payload(kwargs) ==
    LET content_score == compute_content_score(kwargs.content_originality,
                                               kwargs.content_creativity, None)
        authority_score == compute_authority_score(<<kwargs.authority_overall>>)
        values_score == compute_values_score(<<kwargs.values_overall>>)
        total_score == compute_total_score(kwargs.reach_score, kwargs.interest_score,
                                           kwargs.engagement_score, content_score,
                                           authority_score, values_score)
    IN  [ reach_score |-> Some(_clamp(kwargs.reach_score)),
          interest_score |-> Some(_clamp(kwargs.interest_score)),
          engagement_rate |-> Some(IF kwargs.engagement_rate = None THEN 0
                                   ELSE Val(kwargs.engagement_rate)),
          engagement_score |-> Some(_clamp(kwargs.engagement_score)),
          content_originality |-> Some(_clamp(kwargs.content_originality)),
          content_creativity |-> Some(_clamp(kwargs.content_creativity)),
          content_score |-> Some(content_score),
          authority_score |-> Some(authority_score),
          values_score |-> Some(values_score),
          total_score |-> Some(total_score),
          qualitative_notes |-> Some(Strip(kwargs.qualitative_notes)) ]

----------------------------------------------------------------------------
(* app.py: the scoring form *)

\* organic / sponsored as a fraction, None when sponsored is not positive
_compute_saturation_rate(organic_posts, sponsored_posts) ==
    IF sponsored_posts <= 0 THEN None
    ELSE Some([num |-> IF organic_posts < 0 THEN 0 ELSE organic_posts,
               den |-> sponsored_posts])

\* rate >= t / 10
RateAtLeast(rate, tenths) == 10 * rate.num >= tenths * rate.den

BalanceStrictBoundaries(rate) ==
    IF rate = None THEN None
    ELSE IF 10 * Val(rate).num > 7 * Val(rate).den THEN Some(100)
    ELSE IF 10 * Val(rate).num > 5 * Val(rate).den THEN Some(200)
    ELSE IF 10 * Val(rate).num > 4 * Val(rate).den THEN Some(300)
    ELSE IF 10 * Val(rate).num > 3 * Val(rate).den THEN Some(400)
    ELSE IF 10 * Val(rate).num > 2 * Val(rate).den THEN Some(500)
    ELSE None

_content_balance_score_from_rate(rate) ==
    IF rate = None THEN None
    ELSE IF RateAtLeast(Val(rate), 7) THEN Some(100)
    ELSE IF RateAtLeast(Val(rate), 5) THEN Some(200)
    ELSE IF RateAtLeast(Val(rate), 4) THEN Some(300)
    ELSE IF RateAtLeast(Val(rate), 3) THEN Some(400)
    ELSE IF RateAtLeast(Val(rate), 2) THEN Some(500)
    ELSE None

\* what the analyst sees and enters: the derived quantitative scores of the
\* selected creator, the two post estimates, the four sliders and the notes
ScoringForms ==
    [ reach_score : {150, 500},
      interest_score : {300},
      engagement_rate : {547},
      engagement_score : {150, 500},
      organic_posts : {0, 1, 4},
      sponsored_posts : {0, 4, 10},
      content_originality : {100, 350},
      content_creativity : {500},
      authority_overall : {300},
      values_overall : {300, 500},
      notes : { <<>>, <<" ", "o", "k", " ">> } ]

FormBalance(form) ==
    _content_balance_score_from_rate(
        _compute_saturation_rate(form.organic_posts, form.sponsored_posts))

\* round(base * 0.7 + balance * 0.3, 2) when a balance score is available
EngagementPreview(form) ==
    IF FormBalance(form) # None
    THEN Round2([num |-> 70 * form.engagement_score + 30 * Val(FormBalance(form)),
                 den |-> 100])
    ELSE form.engagement_score

\* the keyword arguments of the call at lines 1611-1625
FormKeywords(form) ==
    [ reach_score |-> form.reach_score,
      interest_score |-> form.interest_score,
      engagement_rate |-> Some(form.engagement_rate),
      engagement_score |-> EngagementPreview(form),
      content_balance_score |-> FormBalance(form),
      organic_posts_l2m |-> form.organic_posts,
      sponsored_posts_l2m |-> form.sponsored_posts,
      saturation_rate |-> _compute_saturation_rate(form.organic_posts, form.sponsored_posts),
      content_originality |-> form.content_originality,
      content_creativity |-> form.content_creativity,
      authority_overall |-> Some(form.authority_overall),
      values_overall |-> Some(form.values_overall),
      qualitative_notes |-> form.notes ]

\* "Save score" pressed on the form of association row campaign_influencer_id
SubmitScoreForm(campaign_influencer_id, form) ==
    /\ result.op = "idle"
    /\ IF BuildScoreRaises(FormKeywords(form))
       THEN /\ UNCHANGED campaign_influencers
            /\ result' = [op |-> "score_form", ok |-> FALSE,
                          arg |-> <<campaign_influencer_id, form>>]
       ELSE /\ campaign_influencers' =
                   UpdateScores(campaign_influencers, campaign_influencer_id,
                                build_score_payload(FormKeywords(form)), clock)
            /\ result' = [op |-> "score_form", ok |-> TRUE,
                          arg |-> <<campaign_influencer_id, form>>]
    /\ UNCHANGED <<influencers, kol_sources, clock>>
    /\ Sequential

NextForm ==
    \/ Return
    \/ \E profile \in PoolProfiles : upsert_influencer(profile)
    \/ \E c \in ActiveCampaigns, i \in 1..Len(influencers) : AddSelectedKol(c, i)
    \/ \E id \in 1..Len(campaign_influencers), form \in ScoringForms :
           SubmitScoreForm(id, form)

SpecForm == Init /\ [][NextForm]_vars

FormSubmitted == result.op = "score_form"

\* C14: saving from the scoring form succeeds and the row then carries the
\* payload: the saturation inputs the analyst entered, the balance score,
\* the total and the trimmed notes.
C14_FormSaveStoresAllInputs ==
    FormSubmitted =>
        LET form == result.arg[2]
            scores == campaign_influencers[result.arg[1]].scores
        IN  /\ result.ok
            /\ scores.organic_posts_l2m = Some(form.organic_posts)
            /\ scores.sponsored_posts_l2m = Some(form.sponsored_posts)
            /\ scores.saturation_rate
                   = _compute_saturation_rate(form.organic_posts, form.sponsored_posts)
            /\ scores.content_balance = FormBalance(form)
            /\ scores.total_score # None
            /\ scores.qualitative_notes = Some(Strip(form.notes))

\* C15: when a balance score is available the content score saved from the
\* form is the mean of clamped originality, creativity and balance.
C15_ContentScoreAveragesBalance ==
    (FormSubmitted /\ FormBalance(result.arg[2]) # None) =>
        LET form == result.arg[2]
            scores == campaign_influencers[result.arg[1]].scores
        IN  /\ result.ok
            /\ scores.content_score =
                   Some(compute_content_score(form.content_originality,
                                              form.content_creativity, FormBalance(form)))

----------------------------------------------------------------------------
(* scoring.py: the quantitative scorer *)

IsAlnum(c) == IsLetter(c) \/ IsDigit(c)

RECURSIVE AlnumPrefix(_)
AlnumPrefix(s) ==
    IF s # <<>> /\ IsAlnum(Head(s)) THEN <<Head(s)>> \o AlnumPrefix(Tail(s)) ELSE <<>>

\* re.findall(r"[A-Za-z0-9]+", s): the maximal runs, left to right
RECURSIVE FindAllAlnum(_)
FindAllAlnum(s) ==
    IF s = <<>> THEN <<>>
    ELSE IF IsAlnum(Head(s))
         THEN <<AlnumPrefix(s)>> \o FindAllAlnum(Drop(s, Len(AlnumPrefix(s))))
         ELSE FindAllAlnum(Tail(s))

KeywordSetKeepsShort(part) ==
    IF part = None \/ Val(part) = <<>> THEN {}
    ELSE LET found == FindAllAlnum(Lower(Val(part)))
         IN  { found[i] : i \in 1..Len(found) }

\* _keyword_set of one part
_keyword_set(part) ==
    IF part = None \/ Val(part) = <<>> THEN {}
    ELSE LET found == FindAllAlnum(Lower(Val(part)))
         IN  { found[i] : i \in { k \in 1..Len(found) : Len(found[k]) >= 3 } }

\* _collect_text of None or of a text
_collect_text(value) == IF value = None THEN <<>> ELSE Val(value)

\* " ".join(filter(None, texts))
RECURSIVE JoinNonEmpty(_)
JoinNonEmpty(texts) ==
    IF texts = <<>> THEN <<>>
    ELSE IF Head(texts) = <<>> THEN JoinNonEmpty(Tail(texts))
    ELSE IF JoinNonEmpty(Tail(texts)) = <<>> THEN Head(texts)
    ELSE Head(texts) \o <<" ">> \o JoinNonEmpty(Tail(texts))

ReachTakesFirstBoundary(follower_count) ==
    IF follower_count = None \/ Val(follower_count) <= 0 THEN 100
    ELSE IF Val(follower_count) >= 10000 THEN 200 ELSE 150

\* the thresholds list, (boundary, score)
ReachThresholds ==
    << <<10000, 200>>, <<50000, 300>>, <<200000, 400>>, <<500000, 450>>, <<1000000, 500>> >>

RECURSIVE ReachLoop(_, _, _)
ReachLoop(follower_count, score, thresholds) ==
    IF thresholds = <<>> THEN score
    ELSE ReachLoop(follower_count,
                   IF follower_count >= Head(thresholds)[1] THEN Head(thresholds)[2]
                   ELSE score,
                   Tail(thresholds))

estimate_reach_score(follower_count) ==
    IF follower_count = None \/ Val(follower_count) <= 0 THEN 100
    ELSE Min(ReachLoop(Val(follower_count), 150, ReachThresholds), 500)

estimate_interest_score(topic_text, objective_text) ==
    LET topic_tokens == _keyword_set(topic_text)
        objective_tokens == _keyword_set(objective_text)
        overlap == Cardinality(topic_tokens \cap objective_tokens)
    IN  IF topic_tokens = {} \/ objective_tokens = {} THEN 300
        ELSE IF overlap >= 3 THEN 500
        ELSE IF overlap = 2 THEN 400
        ELSE IF overlap = 1 THEN 350
        ELSE 250

\* the first two digits of a fraction, as hundredths (the model's rate texts
\* carry at most two)
FractionHundredths(digits) ==
    IF digits = <<>> THEN 0
    ELSE IF Len(digits) = 1 THEN 10 * DigitValue(digits[1])
    ELSE 10 * DigitValue(digits[1]) + DigitValue(digits[2])

\* ([0-9]+(?:\.[0-9]+)?)\s*% matched at the start of s: the number, or None
MatchPercentAt(s) ==
    LET whole == DigitPrefix(s)
        after == Drop(s, Len(whole))
        fraction == IF Len(after) >= 2 /\ after[1] = "." /\ IsDigit(after[2])
                    THEN DigitPrefix(Tail(after)) ELSE <<>>
        tail_with == LStripWs(Drop(after, 1 + Len(fraction)))
        tail_without == LStripWs(after)
    IN  IF whole = <<>> THEN None
        ELSE IF fraction # <<>> /\ tail_with # <<>> /\ Head(tail_with) = "%"
             THEN Some(100 * DigitsValue(whole) + FractionHundredths(fraction))
        ELSE IF tail_without # <<>> /\ Head(tail_without) = "%"
             THEN Some(100 * DigitsValue(whole))
        ELSE None

\* re.search: the leftmost position with a match
_parse_percentage(value) ==
    IF value = None \/ Val(value) = <<>> THEN None
    ELSE LET text == Val(value)
             hits == { k \in 0..(Len(text) - 1) : MatchPercentAt(Drop(text, k)) # None }
         IN  IF hits = {} THEN None
             ELSE MatchPercentAt(Drop(text, CHOOSE k \in hits : \A j \in hits : k <= j))

\* the three keys, in the order of the tuple
RateKeys == <<"Instagram Engagement Rate", "TikTok Engagement Rate", "Engagement Rate">>

\* details.get(key) of a details map given as a record of options
DetailsGet(details, key) == IF key \in DOMAIN details THEN details[key] ELSE None

RECURSIVE RateLoop(_, _)
RateLoop(details, keys) ==
    IF keys = <<>> THEN 0
    ELSE IF _parse_percentage(DetailsGet(details, Head(keys))) # None
         THEN Val(_parse_percentage(DetailsGet(details, Head(keys))))
         ELSE RateLoop(details, Tail(keys))

\* details is None (or anything that is not a dict) or a map
extract_engagement_rate(details) ==
    IF details = None THEN 0 ELSE RateLoop(Val(details), RateKeys)

EngagementScoreFlat(rate_percent) == IF rate_percent >= 600 THEN 500 ELSE 100

engagement_score_from_rate(rate_percent) ==
    IF rate_percent >= 600 THEN 500
    ELSE IF rate_percent >= 400 THEN 400
    ELSE IF rate_percent >= 200 THEN 300
    ELSE IF rate_percent >= 100 THEN 200
    ELSE IF rate_percent > 0 THEN 150
    ELSE 100

\* demographics is [tags, categories, subCategories, details], details an
\* option of a map
derive_quantitative_scores(follower_count, demographics, campaign_objective) ==
    LET details == IF demographics.details = None THEN [none |-> None]
                   ELSE Val(demographics.details)
        topic_text == JoinNonEmpty(<< _collect_text(demographics.tags),
                                      _collect_text(demographics.categories),
                                      _collect_text(demographics.subCategories),
                                      _collect_text(DetailsGet(details, "Tags")),
                                      _collect_text(DetailsGet(details, "Category")) >>)
        objective == IF campaign_objective # None /\ Val(campaign_objective) # <<>>
                     THEN campaign_objective ELSE DetailsGet(details, "About")
        engagement_rate == extract_engagement_rate(demographics.details)
    IN  [ reach_score |-> estimate_reach_score(follower_count),
          interest_score |-> estimate_interest_score(Some(topic_text), objective),
          engagement_rate |-> engagement_rate,
          engagement_score |-> engagement_score_from_rate(engagement_rate) ]

----------------------------------------------------------------------------
(* The scorers applied to inputs: each action is one call, its arguments and
   its return value kept in result *)

FollowerInputs ==
    {None} \cup { Some(n) : n \in {-1, 0, 1, 9999, 10000, 30000, 49999, 50000, 199999,
                                   200000, 499999, 500000, 999999, 1000000, 5000000} }

RateInputs == {-100, 0, 1, 50, 99, 100, 150, 199, 200, 399, 400, 599, 600, 1000}

TopicTexts == { None, Some(<<"A", "b", "m", " ", "n", "o", "u", ",", "m", "o", "b">>), Some(<<"a", "b", " ", "n", "o", "u">>) }

ObjectiveTexts ==
    { None, Some(<<>>), Some(<<"a", "b", "m", "-", "n", "o", "u", " ", "m", "o", "b">>), Some(<<"A", "B", "M", " ", "m", "o", "b">>), Some(<<"a", "b">>), Some(<<"k", "a", "m">>) }

\* details maps as scrape_profile_details and fetch_kol_profile build them; a
\* key the map lacks reads as None
DetailMaps ==
    { ("Instagram Engagement Rate" :> ig) @@ ("TikTok Engagement Rate" :> tt)
        @@ ("Engagement Rate" :> er) @@ ("About" :> about) @@ ("Category" :> category)
        @@ ("Tags" :> None) :
        ig \in {None, Some(<<"N", "/", "A">>), Some(<<"3", ".", "2", "%">>)},
        tt \in {None, Some(<<"5", "%">>)},
        er \in {None, Some(<<"1", ".", "5", "0", " ", "%">>), Some(<<"2", ".", "5">>)},
        about \in {None, Some(<<"n", "o", "u">>)},
        category \in {None, Some(<<"m", "o", "b">>)} }

DetailInputs == {None} \cup { Some(d) : d \in DetailMaps }

DemographicInputs ==
    [ tags : TopicTexts, categories : {None}, subCategories : {None, Some(<<"w", "o", "w">>)},
      details : DetailInputs ]

\* keyword calls of build_score_payload with the parameters it has, in and out
\* of the 1-5 range, the optional ones missing
ScorerCalls ==
    [ reach_score : {0, 100, 500, 900},
      interest_score : {100, 500},
      engagement_rate : {None, Some(547)},
      engagement_score : {100, 500},
      content_originality : {100, 500},
      content_creativity : {100, 500},
      authority_overall : {None, Some(100), Some(500), Some(900)},
      values_overall : {None, Some(100), Some(500)},
      qualitative_notes : { <<" ", "o", "k", " ">> } ]

TotalCalls ==
    [ reach_score : {100, 500}, interest_score : {100, 500},
      engagement_score : {100, 500}, content_score : {0, 100, 500, 700},
      authority_score : {0, 100, 500}, values_score : {100, 500} ]

Pure == UNCHANGED <<influencers, campaign_influencers, kol_sources, clock>> /\ Sequential

Called(op, arg, ret) == [op |-> op, ok |-> TRUE, arg |-> arg, ret |-> ret]

ReachScore(follower_count) ==
    /\ result.op = "idle"
    /\ result' = Called("reach", follower_count, estimate_reach_score(follower_count))
    /\ Pure

EngagementScore(rate_percent) ==
    /\ result.op = "idle"
    /\ result' = Called("engagement", rate_percent, engagement_score_from_rate(rate_percent))
    /\ Pure

ExtractRate(details) ==
    /\ result.op = "idle"
    /\ result' = Called("extract", details, extract_engagement_rate(details))
    /\ Pure

DeriveScores(follower_count, demographics, campaign_objective) ==
    /\ result.op = "idle"
    /\ result' = Called("derive", <<follower_count, demographics, campaign_objective>>,
                        derive_quantitative_scores(follower_count, demographics,
                                                   campaign_objective))
    /\ Pure

BuildScore(kwargs) ==
    /\ result.op = "idle"
    /\ result' = IF BuildScoreRaises(kwargs)
                 THEN [op |-> "build", ok |-> FALSE, arg |-> kwargs, ret |-> None]
                 ELSE Called("build", kwargs, build_score_payload(kwargs))
    /\ Pure

ComputeTotal(scores) ==
    /\ result.op = "idle"
    /\ result' = Called("total", scores,
                        compute_total_score(scores.reach_score, scores.interest_score,
                                            scores.engagement_score, scores.content_score,
                                            scores.authority_score, scores.values_score))
    /\ Pure

NextScoring ==
    \/ Return
    \/ \E follower_count \in FollowerInputs : ReachScore(follower_count)
    \/ \E rate_percent \in RateInputs : EngagementScore(rate_percent)
    \/ \E details \in DetailInputs : ExtractRate(details)
    \/ \E follower_count \in {None, Some(30000)}, demographics \in DemographicInputs,
          campaign_objective \in ObjectiveTexts :
           DeriveScores(follower_count, demographics, campaign_objective)
    \/ \E kwargs \in ScorerCalls : BuildScore(kwargs)
    \/ \E scores \in TotalCalls : ComputeTotal(scores)

SpecScoring == Init /\ [][NextScoring]_vars

----------------------------------------------------------------------------
(* The scorers: claims under SpecScoring *)

Built == result.op = "build" /\ result.ok

Totalled == result.op = "total"

AllSubScores(kwargs, v) ==
    /\ kwargs.reach_score = v /\ kwargs.interest_score = v /\ kwargs.engagement_score = v
    /\ kwargs.content_originality = v /\ kwargs.content_creativity = v
    /\ kwargs.authority_overall = Some(v) /\ kwargs.values_overall = Some(v)

\* C16: every total the composite scorer returns lies between 6.0 and 30.0:
\* all sub-scores 1 give exactly 6.0, all sub-scores 5 give exactly 30.0, and
\* an out-of-range or missing sub-score never takes the total outside.
C16_TotalBetweenSixAndThirty ==
    /\ Built =>
         /\ Val(result.ret.total_score) \in 600..3000
         /\ AllSubScores(result.arg, 100) => result.ret.total_score = Some(600)
         /\ AllSubScores(result.arg, 500) => result.ret.total_score = Some(3000)
    /\ Totalled => result.ret \in 600..3000

\* null counts order below every integer
FollowersLeq(a, b) == a = None \/ (b # None /\ Val(a) <= Val(b))

\* the score of the highest boundary met, as the reach table states it
ReachTable(n) ==
    IF n >= 1000000 THEN 500
    ELSE IF n >= 500000 THEN 450
    ELSE IF n >= 200000 THEN 400
    ELSE IF n >= 50000 THEN 300
    ELSE IF n >= 10000 THEN 200
    ELSE 150

\* C17: estimate_reach_score is 1.0 for a null or non-positive count, 1.5
\* for a positive count below 10,000, otherwise the score of the highest
\* boundary met; it never exceeds 5.0 and never decreases as the count grows.
C17_ReachScoreTable ==
    result.op = "reach" =>
        /\ result.ret = IF result.arg = None \/ Val(result.arg) <= 0 THEN 100
                        ELSE ReachTable(Val(result.arg))
        /\ result.ret <= 500
        /\ \A lower \in FollowerInputs :
               FollowersLeq(lower, result.arg) => estimate_reach_score(lower) <= result.ret

C17_Witness ==
    /\ result.op = "reach" /\ result.arg = Some(1000000) /\ result.ret = 500
    /\ estimate_reach_score(Some(30000)) = 200

\* C18: engagement_score_from_rate is the step function 6.0 -> 5.0,
\* 4.0 -> 4.0, 2.0 -> 3.0, 1.0 -> 2.0, above zero -> 1.5, else 1.0, and it
\* never decreases as the rate grows.
C18_EngagementScoreSteps ==
    result.op = "engagement" =>
        LET rate == result.arg
        IN  /\ rate >= 600 => result.ret = 500
            /\ (rate >= 400 /\ rate < 600) => result.ret = 400
            /\ (rate >= 200 /\ rate < 400) => result.ret = 300
            /\ (rate >= 100 /\ rate < 200) => result.ret = 200
            /\ (rate > 0 /\ rate < 100) => result.ret = 150
            /\ rate <= 0 => result.ret = 100
            /\ \A lower \in RateInputs :
                   lower <= rate => engagement_score_from_rate(lower) <= result.ret

C18_Witness ==
    /\ result.op = "engagement" /\ result.arg = 150 /\ result.ret = 200
    /\ engagement_score_from_rate(600) = 500
    /\ engagement_score_from_rate(0) = 100

\* the lower-cased alphanumeric runs of length >= 3 of a text: the stretches
\* of letters and digits that no letter or digit borders
TokensOf(text) ==
    { Lower(SubSeq(text, i, j)) :
        <<i, j>> \in { <<a, b>> \in (1..Len(text)) \X (1..Len(text)) :
                          /\ b - a + 1 >= 3
                          /\ \A k \in a..b : IsAlnum(text[k])
                          /\ a = 1 \/ ~IsAlnum(text[a - 1])
                          /\ b = Len(text) \/ ~IsAlnum(text[b + 1]) } }

OptionTokens(option) == IF option = None THEN {} ELSE TokensOf(Val(option))

\* the creator's topic tokens: those of the tags, categories, sub-categories
\* and of the Tags and Category details
TopicTokens(demographics) ==
    OptionTokens(demographics.tags) \cup OptionTokens(demographics.categories)
        \cup OptionTokens(demographics.subCategories)
        \cup (IF demographics.details = None THEN {}
              ELSE OptionTokens(Val(demographics.details)["Tags"])
                       \cup OptionTokens(Val(demographics.details)["Category"]))

\* the objective's tokens, the About text standing in for an absent objective
ObjectiveTokens(demographics, campaign_objective) ==
    IF campaign_objective # None /\ Val(campaign_objective) # <<>>
    THEN OptionTokens(campaign_objective)
    ELSE IF demographics.details = None THEN {}
    ELSE OptionTokens(Val(demographics.details)["About"])

InterestTable(topic, objective) ==
    IF topic = {} \/ objective = {} THEN 300
    ELSE IF Cardinality(topic \cap objective) >= 3 THEN 500
    ELSE IF Cardinality(topic \cap objective) = 2 THEN 400
    ELSE IF Cardinality(topic \cap objective) = 1 THEN 350
    ELSE 250

\* C19: the interest score is a function of the topic and objective token
\* sets alone: 3.0 when either is empty, else 5.0 / 4.0 / 3.5 / 2.5 for an
\* overlap of 3 or more / 2 / 1 / 0 tokens; the About text is tokenized in
\* place of an absent objective.
C19_InterestFromTokenSets ==
    result.op = "derive" =>
        result.ret.interest_score
            = InterestTable(TopicTokens(result.arg[2]),
                            ObjectiveTokens(result.arg[2], result.arg[3]))

\* an absent objective, the About text overlapping the tags in one token
C19_Witness ==
    /\ result.op = "derive"
    /\ result.arg[3] = None
    /\ result.arg[2].details # None
    /\ Val(result.arg[2].details)["About"] # None
    /\ Cardinality(TopicTokens(result.arg[2])) = 3
    /\ result.ret.interest_score = 350

\* the rate keys a details map has a value for, in priority order
PresentRateKeys(details) == SelectSeq(RateKeys, LAMBDA key : details[key] # None)

\* C20: extract_engagement_rate returns the rate of the first of the three
\* keys that is present, 0.0 when none is or details is no map; a later key
\* is not used when an earlier one is present.
C20_FirstPresentKeyWins ==
    result.op = "extract" =>
        IF result.arg = None \/ PresentRateKeys(Val(result.arg)) = <<>>
        THEN result.ret = 0
        ELSE LET first == Val(result.arg)[Head(PresentRateKeys(Val(result.arg)))]
             IN  result.ret = IF _parse_percentage(first) = None THEN 0
                              ELSE Val(_parse_percentage(first))

----------------------------------------------------------------------------
(* app.py: the number parsers and the detail normalizer *)

Upper(s) == [i \in 1..Len(s) |-> UpperChar(s[i])]

StartsWith(s, prefix) == Len(s) >= Len(prefix) /\ SubSeq(s, 1, Len(prefix)) = prefix

EndsWith(s, suffix) ==
    Len(s) >= Len(suffix) /\ SubSeq(s, Len(s) - Len(suffix) + 1, Len(s)) = suffix

\* s.replace(old, new): the occurrences of old, left to right, not overlapping
RECURSIVE Replace(_, _, _)
Replace(s, old, new) ==
    IF Len(s) < Len(old) THEN s
    ELSE IF SubSeq(s, 1, Len(old)) = old THEN new \o Replace(Drop(s, Len(old)), old, new)
    ELSE <<Head(s)>> \o Replace(Tail(s), old, new)

\* a float as the fraction num / den, den a power of ten (the texts of the
\* model are ones whose float product is exact)
Float(num, den) == [num |-> num, den |-> den]

\* int(x): the integer part, towards zero
IntegerPart(x) == IF x.num >= 0 THEN x.num \div x.den ELSE -((-x.num) \div x.den)

\* a text split as -?digits(.digits)?rest; whole is empty when no digit leads
Decimal(s) ==
    LET negative == s # <<>> /\ Head(s) = "-"
        body == IF negative THEN Tail(s) ELSE s
        whole == DigitPrefix(body)
        after == Drop(body, Len(whole))
        fraction == IF whole # <<>> /\ Len(after) >= 2 /\ after[1] = "." /\ IsDigit(after[2])
                    THEN DigitPrefix(Tail(after)) ELSE <<>>
    IN  [ negative |-> negative, whole |-> whole, fraction |-> fraction,
          rest |-> IF fraction = <<>> THEN after ELSE Drop(after, 1 + Len(fraction)) ]

DecimalValue(d, multiplier) ==
    Float((IF d.negative THEN -1 ELSE 1) * DigitsValue(d.whole \o d.fraction) * multiplier,
          Pow10(Len(d.fraction)))

\* float(text) of a stripped text: [+-] digits [. digits] or [+-] [digits] . digits;
\* None for the texts that raise ValueError (the texts of the model hold no
\* exponent, underscore, "inf" or "nan")
FloatOf(s) ==
    LET signed == s # <<>> /\ Head(s) \in {"+", "-"}
        body == IF signed THEN Tail(s) ELSE s
        whole == DigitPrefix(body)
        after == Drop(body, Len(whole))
        fraction == IF after # <<>> /\ Head(after) = "." THEN DigitPrefix(Tail(after)) ELSE <<>>
        rest == IF after # <<>> /\ Head(after) = "." THEN Drop(after, 1 + Len(fraction))
                ELSE after
    IN  IF rest # <<>> \/ whole \o fraction = <<>> THEN None
        ELSE Some(Float((IF signed /\ Head(s) = "-" THEN -1 ELSE 1)
                            * DigitsValue(whole \o fraction),
                        Pow10(Len(fraction))))

\* re.match(r"(-?\d+(?:\.\d+)?)([KMB]?)$", cleaned), else float(cleaned)
_parse_compact_number(raw) ==
    LET cleaned == Upper(Strip(Without(raw, ",")))
        d == Decimal(cleaned)
    IN  IF d.whole # <<>> /\ (d.rest = <<>> \/ (Len(d.rest) = 1 /\ d.rest[1] \in {"K", "M", "B"}))
        THEN Some(DecimalValue(d, IF d.rest = <<>> THEN 1 ELSE SuffixMultiplier(d.rest[1])))
        ELSE FloatOf(cleaned)

\* re.search(r"-?\d+(?:\.\d+)?", text): the leftmost match
RECURSIVE SearchDecimal(_)
SearchDecimal(s) ==
    IF s = <<>> THEN None
    ELSE IF Decimal(s).whole # <<>> THEN Some(DecimalValue(Decimal(s), 1))
    ELSE SearchDecimal(Tail(s))

_parse_percentage_value(raw) == SearchDecimal(Without(raw, "%"))

InstagramText == <<"I", "n", "s", "t", "a", "g", "r", "a", "m">>
TikTokText == <<"T", "i", "k", "T", "o", "k">>
FollowersText == <<"F", "o", "l", "l", "o", "w", "e", "r", "s">>
EngagementText == <<"E", "n", "g", "a", "g", "e", "m", "e", "n", "t">>
EngagementRateText == <<"E", "n", "g", "a", "g", "e", "m", "e", "n", "t", " ", "R", "a", "t", "e">>
DetailPrefix == <<"D", "e", "t", "a", "i", "l", " ", "-", " ">>

\* a detail value: a text, or something that is not a str (an int or a list,
\* its content written as text)
Str(text) == [type |-> "str", v |-> text]

Number(x) == [type |-> "float", v |-> x]

\* text and lowered_value after _trim_suffix(suffix)
TrimSuffix(text, suffix) ==
    IF EndsWith(Lower(text), suffix) THEN Strip(SubSeq(text, 1, Len(text) - Len(suffix)))
    ELSE text

\* column_key with a leading platform name removed
DropPlatform(column_key, platform) ==
    IF StartsWith(column_key, platform)
    THEN (IF Strip(Replace(column_key, platform, <<>>)) # <<>>
          THEN Strip(Replace(column_key, platform, <<>>)) ELSE platform)
    ELSE column_key

\* x or default, for a text
OrText(x, default) == IF x # <<>> THEN x ELSE default

_normalize_detail_entry(detail_key, value) ==
    IF value.type # "str" THEN <<DetailPrefix \o detail_key, value>>
    ELSE
    LET text == TrimSuffix(TrimSuffix(Strip(value.v), <<" ">> \o Lower(FollowersText)),
                           <<" ">> \o Lower(EngagementRateText))
        lowered_value == Lower(text)
        stripped_key == DropPlatform(DropPlatform(detail_key, InstagramText), TikTokText)
        followers_key == Contains(Lower(detail_key), Lower(FollowersText))
        rate_key == Contains(Lower(detail_key), Lower(EngagementRateText))
        to_rate == followers_key /\ (Contains(lowered_value, <<"%">>)
                                     \/ Contains(lowered_value, Lower(EngagementText)))
        to_followers == ~to_rate /\ rate_key
                           /\ Contains(lowered_value, Lower(FollowersText))
                           /\ ~Contains(lowered_value, <<"%">>)
        column_key == IF to_rate
                      THEN OrText(Replace(stripped_key, FollowersText, EngagementRateText),
                                  EngagementRateText)
                      ELSE IF to_followers
                      THEN OrText(Replace(stripped_key, EngagementRateText, FollowersText),
                                  FollowersText)
                      ELSE stripped_key
        lowered_key == IF to_rate \/ to_followers THEN Lower(column_key) ELSE Lower(detail_key)
        numeric_value == IF Contains(lowered_key, Lower(FollowersText))
                         THEN _parse_compact_number(text)
                         ELSE IF Contains(lowered_key, Lower(EngagementRateText))
                         THEN _parse_percentage_value(text)
                         ELSE None
    IN  <<DetailPrefix \o column_key,
          IF numeric_value # None THEN Number(Val(numeric_value)) ELSE Str(text)>>

\* a details dict is the sequence of its (key, value) items in insertion
\* order; the flattened dict is a function of its column names
PutColumn(flattened, column_name, value) ==
    [c \in DOMAIN flattened \cup {column_name} |->
        IF c = column_name THEN value ELSE flattened[c]]

RECURSIVE FlattenItems(_, _)
FlattenItems(items, flattened) ==
    IF items = <<>> THEN flattened
    ELSE LET key == Head(items)[1]
             value == Head(items)[2]
             column == IF value.type \in {"dict", "list"}
                       THEN <<DetailPrefix \o key, Str(JsonDumps(value.v))>>
                       ELSE _normalize_detail_entry(key, value)
         IN  FlattenItems(Tail(items), PutColumn(flattened, column[1], column[2]))

\* details is an option of a dict; anything else is kept under "Detail - raw"
_flatten_details(details) ==
    IF details = None THEN (DetailPrefix \o <<"r", "a", "w">>) :> [type |-> "none", v |-> None]
    ELSE FlattenItems(Val(details), <<>>)

----------------------------------------------------------------------------
(* app.py: the display helpers applied to inputs *)

PostCounts == -1..10

DetailKeys ==
    { <<"I", "n", "s", "t", "a", "g", "r", "a", "m", " ", "F", "o", "l", "l", "o", "w", "e", "r", "s">>, <<"T", "i", "k", "T", "o", "k", " ", "F", "o", "l", "l", "o", "w", "e", "r", "s">>, <<"F", "o", "l", "l", "o", "w", "e", "r", "s">>, <<"f", "o", "l", "l", "o", "w", "e", "r", "s">>,
      <<"I", "n", "s", "t", "a", "g", "r", "a", "m", " ", "E", "n", "g", "a", "g", "e", "m", "e", "n", "t", " ", "R", "a", "t", "e">>, <<"E", "n", "g", "a", "g", "e", "m", "e", "n", "t", " ", "R", "a", "t", "e">>, <<"I", "n", "s", "t", "a", "g", "r", "a", "m">>, <<"L", "o", "c", "a", "t", "i", "o", "n">> }

DetailTexts ==
    { <<"5", "K">>, <<"7", "K">>, <<"1", "2", ".", "3", "K", " ", "f", "o", "l", "l", "o", "w", "e", "r", "s">>, <<"3", ".", "2", "%">>, <<"3", ".", "2", "%", " ", "e", "n", "g", "a", "g", "e", "m", "e", "n", "t", " ", "r", "a", "t", "e">>,
      <<"H", "i", "g", "h", " ", "e", "n", "g", "a", "g", "e", "m", "e", "n", "t">>, <<"f", "o", "l", "l", "o", "w", "e", "r", "s", " ", "1", "2", "K">>, <<" ", "1", ",", "0", "0", "0", " ">>, <<"N", "/", "A">> }

DetailValues ==
    { Str(text) : text \in DetailTexts } \cup { [type |-> "int", v |-> <<"5">>], [type |-> "list", v |-> <<"1">>] }

FlattenKeys == { <<"I", "n", "s", "t", "a", "g", "r", "a", "m", " ", "F", "o", "l", "l", "o", "w", "e", "r", "s">>, <<"T", "i", "k", "T", "o", "k", " ", "F", "o", "l", "l", "o", "w", "e", "r", "s">>, <<"F", "o", "l", "l", "o", "w", "e", "r", "s">>, <<"E", "n", "g", "a", "g", "e", "m", "e", "n", "t", " ", "R", "a", "t", "e">>, <<"L", "o", "c", "a", "t", "i", "o", "n">> }

FlattenValues == { Str(<<"5", "K">>), Str(<<"7", "K">>), Str(<<"3", ".", "2", "%">>), [type |-> "list", v |-> <<"1">>] }

\* dicts of at most two items
DetailDicts ==
    { <<>> } \cup { <<item>> : item \in FlattenKeys \X FlattenValues }
        \cup { <<first, second>> : <<first, second>> \in
                 { pair \in (FlattenKeys \X FlattenValues) \X (FlattenKeys \X FlattenValues) :
                     pair[1][1] # pair[2][1] } }

FollowerTexts ==
    { <<>>, <<"5", "K">>, <<"1", "2", ".", "3", "K">>, <<"1", "2", ".", "3", "k">>, <<"1", ",", "0", "0", "0">>, <<"1", ".", "5", "M">>, <<"1", "B">>, <<" ", "7", " ">>, <<"1", "2", ".", "3", "K", " ", "f", "o", "l", "l", "o", "w", "e", "r", "s">>,
      <<"-", "5">>, <<"+", "5">>, <<"~", "1", ".", "5", "M">>, <<"N", "/", "A">>, <<"5", ".">>, <<".", "5", "K">>, <<"5", " ", "K">> }

SaturationRate(organic_posts, sponsored_posts) ==
    /\ result.op = "idle"
    /\ result' = Called("saturation", <<organic_posts, sponsored_posts>>,
                        [ rate |-> _compute_saturation_rate(organic_posts, sponsored_posts),
                          balance |-> _content_balance_score_from_rate(
                                          _compute_saturation_rate(organic_posts,
                                                                   sponsored_posts)) ])
    /\ Pure

NormalizeDetail(detail_key, value) ==
    /\ result.op = "idle"
    /\ result' = Called("normalize", <<detail_key, value>>,
                        _normalize_detail_entry(detail_key, value))
    /\ Pure

FlattenDetails(details) ==
    /\ result.op = "idle"
    /\ result' = Called("flatten", details, _flatten_details(details))
    /\ Pure

\* the two parsers of follower texts, called on the same text
ParseFollowers(raw) ==
    /\ result.op = "idle"
    /\ result' = Called("followers", raw,
                        [ crawl |-> parse_follower_count(raw),
                          compact |-> _parse_compact_number(raw) ])
    /\ Pure

NextApp ==
    \/ Return
    \/ \E organic_posts \in PostCounts, sponsored_posts \in PostCounts :
           SaturationRate(organic_posts, sponsored_posts)
    \/ \E detail_key \in DetailKeys, value \in DetailValues : NormalizeDetail(detail_key, value)
    \/ \E details \in {None} \cup { Some(d) : d \in DetailDicts } : FlattenDetails(details)
    \/ \E raw \in FollowerTexts : ParseFollowers(raw)

SpecApp == Init /\ [][NextApp]_vars

\* C21: the saturation rate is defined exactly when sponsored > 0 and is then
\* max(organic, 0) / sponsored; the balance score is 1.0 / 2.0 / 3.0 / 4.0 /
\* 5.0 for a rate of at least 0.7 / 0.5 / 0.4 / 0.3 / 0.2 and absent for a
\* lower or undefined rate.
C21_SaturationAndBalance ==
    result.op = "saturation" =>
        LET organic == Max(result.arg[1], 0)
            sponsored == result.arg[2]
            rate == result.ret.rate
            balance == result.ret.balance
        IN  /\ (rate # None) <=> (sponsored > 0)
            /\ sponsored <= 0 => balance = None
            /\ sponsored > 0 =>
                 /\ Val(rate).num * sponsored = organic * Val(rate).den
                 /\ 10 * organic >= 7 * sponsored => balance = Some(100)
                 /\ (10 * organic >= 5 * sponsored /\ 10 * organic < 7 * sponsored)
                        => balance = Some(200)
                 /\ (10 * organic >= 4 * sponsored /\ 10 * organic < 5 * sponsored)
                        => balance = Some(300)
                 /\ (10 * organic >= 3 * sponsored /\ 10 * organic < 4 * sponsored)
                        => balance = Some(400)
                 /\ (10 * organic >= 2 * sponsored /\ 10 * organic < 3 * sponsored)
                        => balance = Some(500)
                 /\ 10 * organic < 2 * sponsored => balance = None

\* rate 0.25 scores 5.0
C21_Witness ==
    /\ result.op = "saturation" /\ result.arg = <<1, 4>>
    /\ result.ret.balance = Some(500)

Normalized == result.op = "normalize" /\ result.arg[2].type = "str"

\* C22: the detail normalizer corrects swapped labels both ways: a followers
\* key whose value holds "%" or the word "engagement" comes out under an
\* Engagement Rate key with the percentage parsed, and an engagement-rate
\* key whose value holds the word "followers" and no "%" comes out under a
\* Followers key with the compact number parsed.
C22_SwappedLabelsCorrected ==
    Normalized =>
        LET detail_key == Lower(result.arg[1])
            text == Strip(result.arg[2].v)
            column == result.ret[1]
            value == result.ret[2]
            count == TrimSuffix(text, <<" ">> \o Lower(FollowersText))
        IN  /\ ( /\ Contains(detail_key, Lower(FollowersText))
                 /\ Contains(text, <<"%">>) \/ Contains(Lower(text), Lower(EngagementText)) )
                  => /\ Contains(column, EngagementRateText)
                     /\ ~Contains(Lower(column), Lower(FollowersText))
                     /\ _parse_percentage_value(text) # None
                            => value = Number(Val(_parse_percentage_value(text)))
            /\ ( /\ Contains(detail_key, Lower(EngagementRateText))
                 /\ Contains(Lower(text), Lower(FollowersText))
                 /\ ~Contains(text, <<"%">>) )
                  => /\ Contains(column, FollowersText)
                     /\ ~Contains(Lower(column), Lower(EngagementRateText))
                     /\ _parse_compact_number(count) # None
                            => value = Number(Val(_parse_compact_number(count)))

\* C27: parse_follower_count returns the integer part of what
\* _parse_compact_number returns for the same text, and None exactly when
\* _parse_compact_number returns None.
C27_CrawlCountIsCompactNumber ==
    result.op = "followers" =>
        /\ (result.ret.crawl = None) <=> (result.ret.compact = None)
        /\ result.ret.compact # None =>
               result.ret.crawl = Some(IntegerPart(Val(result.ret.compact)))

\* C28: _flatten_details yields one column for each key of the details dict:
\* no two keys share a column.
C28_FlattenKeepsEveryKey ==
    (result.op = "flatten" /\ result.arg # None) =>
        Cardinality(DOMAIN result.ret) = Len(Val(result.arg))

----------------------------------------------------------------------------
(* creatoriq_dom.py: CreatorIQDomScraper.scrape_report as a process.  pc holds
   its position, call its locals and the page the driver shows; the page
   changes while the process sleeps. *)

Card(fullname, handle) ==
    [ FullName |-> fullname, Handle |-> handle, Platform |-> "TikTok",
      Followers |-> <<"5", "K">>, Details |-> None ]

\* the card elements of the report, top to bottom, as _extract_profile_card
\* reads them: a handle shown twice, a card without handle, and None for a
\* card it cannot read
FeedCards ==
    << Some(Card(<<"N">>, <<"@", "a">>)), Some(Card(<<"M">>, <<"@", "b">>)),
       Some(Card(<<"U">>, <<"@", "a">>)), Some(Card(<<"N">>, <<>>)), None >>

PageHeights == 1..2

\* a page state: the body's scrollHeight, the card elements in the DOM (those
\* from first to last of the feed) and whether the spotlight heading shows
Pages ==
    { page \in [ height : PageHeights, first : 1..2, last : 0..Len(FeedCards),
                 spotlight : BOOLEAN ] : page.first <= page.last + 1 }

PageCards(page) == SubSeq(FeedCards, page.first, page.last)

\* len(driver.find_elements(PROFILE_CARD_SELECTOR))
CardCount(page) == page.last - page.first + 1

MaxProfiles == {0, 2, 3}

DetailLimits == {None, Some(0), Some(1)}

\* wait_for_profile_growth's max_attempts
max_attempts == 5

At(position) == pc = <<position>>

Locals == call[1]

HandlesOf(profiles) == { profiles[i].Handle : i \in 1..Len(profiles) }

KeepsEveryHandle(handle, unique_handles) == handle # <<>>

\* lines 154-158: a card is appended unless its handle is empty or was seen
IsNewHandle(handle, unique_handles) == handle # <<>> /\ handle \notin unique_handles

\* the for loop over the page's elements, lines 151-164
RECURSIVE ScanCards(_, _, _)
ScanCards(elements, profiles_data, max_profiles) ==
    IF elements = <<>> \/ Len(profiles_data) >= max_profiles THEN profiles_data
    ELSE IF Head(elements) # None
            /\ IsNewHandle(Val(Head(elements)).Handle, HandlesOf(profiles_data))
         THEN ScanCards(Tail(elements), Append(profiles_data, Val(Head(elements))),
                        max_profiles)
         ELSE ScanCards(Tail(elements), profiles_data, max_profiles)

\* the handles the process has been shown so far, in order of first
\* appearance (a record of the run, not a local of the code)
RECURSIVE FirstSeen(_, _)
FirstSeen(seen, elements) ==
    IF elements = <<>> THEN seen
    ELSE IF Head(elements) # None /\ Val(Head(elements)).Handle # <<>>
            /\ \A i \in 1..Len(seen) : seen[i] # Val(Head(elements)).Handle
         THEN FirstSeen(Append(seen, Val(Head(elements)).Handle), Tail(elements))
         ELSE FirstSeen(seen, Tail(elements))

\* scrape_report lines 126-134: where the process goes once _scrape_profiles
\* has returned
DetailLimit(profiles, detail_limit) ==
    IF detail_limit = None THEN Len(profiles) ELSE Min(Len(profiles), Val(detail_limit))

AfterScrape(profiles, detail_limit) ==
    IF profiles = <<>> \/ DetailLimit(profiles, detail_limit) <= 0 THEN "return" ELSE "details"

\* the page shown next lost height or cards
Shrinks(page, new_page) ==
    new_page.height < page.height \/ CardCount(new_page) < CardCount(page)

\* no call of scrape_report is running
NoLocals ==
    [ max_profiles |-> 0, detail_limit |-> None,
      page |-> [height |-> 1, first |-> 1, last |-> 0, spotlight |-> FALSE],
      profiles_data |-> <<>>, visible_count |-> 0, last_height |-> 0,
      attempt |-> 0, index |-> 1, shrank |-> FALSE ]

CrawlStore == UNCHANGED <<influencers, campaign_influencers, kol_sources, clock>>

\* scrape_report called; driver.get(url) shows some page
BeginCrawl(max_profiles, detail_limit, page) ==
    /\ At("idle") /\ result.op = "idle"
    /\ pc' = <<"scan">>
    /\ call' = << [ max_profiles |-> max_profiles, detail_limit |-> detail_limit,
                    page |-> page, profiles_data |-> <<>>, visible_count |-> 0,
                    last_height |-> 0, attempt |-> 0, index |-> 1, shrank |-> FALSE ] >>
    /\ history' = <<>>
    /\ UNCHANGED result /\ CrawlStore

\* one pass of the while loop up to the call of scroll_page, lines 148-166
ScanPage ==
    /\ At("scan")
    /\ LET scanned == IF Len(Locals.profiles_data) < Locals.max_profiles
                      THEN ScanCards(PageCards(Locals.page), Locals.profiles_data,
                                     Locals.max_profiles)
                      ELSE Locals.profiles_data
       IN  /\ call' = << [ Locals EXCEPT !.profiles_data = scanned,
                                         !.visible_count = CardCount(Locals.page),
                                         !.last_height = Locals.page.height ] >>
           /\ pc' = IF Len(scanned) >= Locals.max_profiles
                    THEN <<AfterScrape(scanned, Locals.detail_limit)>>
                    ELSE <<"scroll">>
           /\ history' = IF Len(Locals.profiles_data) < Locals.max_profiles
                         THEN FirstSeen(history, PageCards(Locals.page)) ELSE history
    /\ UNCHANGED result /\ CrawlStore

BottomOnlyWhenShrunk(new_height, last_height) == new_height < last_height

\* scroll_page line 59
ReachedBottom(new_height, last_height) == new_height = last_height

\* one pass of scroll_page's loop: scroll, sleep, read the page
ScrollStep(new_page) ==
    /\ At("scroll")
    /\ call' = << [ Locals EXCEPT !.page = new_page, !.last_height = new_page.height,
                                  !.attempt = 0,
                                  !.shrank = @ \/ Shrinks(Locals.page, new_page) ] >>
    /\ pc' = IF ReachedBottom(new_page.height, Locals.last_height)
             THEN <<AfterScrape(Locals.profiles_data, Locals.detail_limit)>>
             ELSE IF new_page.spotlight THEN <<"wait">>
             ELSE <<"scroll">>
    /\ UNCHANGED <<result, history>> /\ CrawlStore

\* one attempt of wait_for_profile_growth: sleep, count the cards
WaitStep(new_page) ==
    /\ At("wait")
    /\ call' = << [ Locals EXCEPT !.page = new_page, !.attempt = @ + 1,
                                  !.shrank = @ \/ Shrinks(Locals.page, new_page) ] >>
    /\ pc' = IF CardCount(new_page) > Locals.visible_count THEN <<"scan">>
             ELSE IF Locals.attempt + 1 >= max_attempts
             THEN <<AfterScrape(Locals.profiles_data, Locals.detail_limit)>>
             ELSE <<"wait">>
    /\ UNCHANGED <<result, history>> /\ CrawlStore

\* one pass of _attach_profile_details' loop: success is what
\* visit_and_search returns
AttachDetails(success) ==
    /\ At("details")
    /\ LET profile == Locals.profiles_data[Locals.index]
           attached == IF Strip(profile.Handle) # <<>> /\ success
                       THEN [Locals.profiles_data EXCEPT ![Locals.index].Details =
                                                             Some("details")]
                       ELSE Locals.profiles_data
       IN  /\ call' = << [ Locals EXCEPT !.profiles_data = attached, !.index = @ + 1 ] >>
           /\ pc' = IF Locals.index + 1 > DetailLimit(Locals.profiles_data, Locals.detail_limit)
                    THEN <<"return">> ELSE <<"details">>
    /\ UNCHANGED <<result, history>> /\ CrawlStore

ReturnProfiles ==
    /\ At("return")
    /\ result' = Called("scrape_report", <<Locals.max_profiles, Locals.detail_limit>>,
                        Locals.profiles_data)
    /\ pc' = <<"idle">>
    /\ call' = <<NoLocals>>
    /\ UNCHANGED history /\ CrawlStore

InitCrawl ==
    /\ InitStore
    /\ pc = <<"idle">>
    /\ call = <<NoLocals>>
    /\ history = <<>>

CrawlSteps ==
    \/ ScanPage
    \/ \E new_page \in Pages : ScrollStep(new_page)
    \/ \E new_page \in Pages : WaitStep(new_page)
    \/ \E success \in BOOLEAN : AttachDetails(success)
    \/ ReturnProfiles

NextCrawl ==
    \/ Return
    \/ \E max_profiles \in MaxProfiles, detail_limit \in DetailLimits, page \in Pages :
           BeginCrawl(max_profiles, detail_limit, page)
    \/ CrawlSteps

SpecCrawl == InitCrawl /\ [][NextCrawl]_vars

\* the process keeps running once started
SpecCrawlFair == SpecCrawl /\ WF_vars(CrawlSteps)

Scraped == result.op = "scrape_report"

\* the first n items of a sequence
Take(s, n) == SubSeq(s, 1, Min(Len(s), n))

InScrape == At("scan") \/ At("scroll") \/ At("wait")

----------------------------------------------------------------------------
(* database.py: score saves on existing and on missing association rows *)

\* ids a caller may pass: those of the rows and one no row has
SaveIds == 1..(MaxRows + 1)

NextSave ==
    \/ Tick
    \/ Return
    \/ \E c \in ActiveCampaigns, link \in {TikTokLink, BareLink} : IngestProfileLink(c, link)
    \/ \E id \in SaveIds, payload \in ScorePayloads :
           save_campaign_influencer_scores(id, payload)

SpecSave == Init /\ [][NextSave]_vars

\* C24: save_campaign_influencer_scores(id, payload) changes the association
\* row with that id and nothing else: every other association row, every
\* creator and every import record stays as it was, and with no row of that
\* id nothing changes.
C24_SaveTouchesOneRow ==
    [][ result'.op = "save" =>
          LET id == result'.arg[1]
          IN  /\ influencers' = influencers
              /\ kol_sources' = kol_sources
              /\ Len(campaign_influencers') = Len(campaign_influencers)
              /\ \A i \in 1..Len(campaign_influencers) :
                     campaign_influencers[i].id # id
                         => campaign_influencers'[i] = campaign_influencers[i]
              /\ (\A i \in 1..Len(campaign_influencers) : campaign_influencers[i].id # id)
                     => campaign_influencers' = campaign_influencers ]_vars

\* a save on one of two rows, the other row holding scores saved earlier,
\* with import records in the log
C24_Witness ==
    /\ result.op = "save"
    /\ Len(campaign_influencers) = 2
    /\ kol_sources # <<>>
    /\ \E i, j \in 1..2 :
           /\ campaign_influencers[i].id = result.arg[1]
           /\ campaign_influencers[j].id # result.arg[1]
           /\ campaign_influencers[j].scores # NullScores
           /\ campaign_influencers[j].scores # campaign_influencers[i].scores

----------------------------------------------------------------------------
(* app.py lines 1264-1279 after imports from a real source: the stub fetcher's
   profile upserted under a key a real import has stored *)

\* https://instagram.com/a: the stub derives handle "a" on Instagram from it
InstagramLink ==
    [ netloc |-> <<"i", "n", "s", "t", "a", "g", "r", "a", "m", ".", "c", "o", "m">>,
      path |-> <<"/", "a">>, md5 |-> 2865478 ]

NextStub ==
    \/ Tick
    \/ Return
    \/ \E profile \in RacingProfiles : upsert_influencer(profile)
    \/ \E c \in ActiveCampaigns, i \in 1..Len(influencers) : AddSelectedKol(c, i)
    \/ \E c \in ActiveCampaigns, link \in {InstagramLink, TikTokLink} :
           IngestProfileLink(c, link)

SpecStub == Init /\ [][NextStub]_vars

\* demographics a real source supplied
FromRealSource(row) == row.demographics_json.json.kind = "api"

\* C25: storing a profile of the stub fetcher never replaces the follower
\* count or the demographics (with the engagement details) that a real
\* source supplied for a creator of the same key.
C25_StubKeepsRealData ==
    [][ result'.op = "stub" =>
          \A i \in 1..Len(influencers) :
              FromRealSource(influencers[i]) =>
                  /\ influencers'[i].follower_count = influencers[i].follower_count
                  /\ influencers'[i].demographics_json = influencers[i].demographics_json ]_vars

\* ---------------------------------------------------------------------------
\* database.py: creators and the associations that refer to them
\* ---------------------------------------------------------------------------

ForeignKeysOff(tbl, influencer_id) == TRUE

\* PRAGMA foreign_keys = ON;  FOREIGN KEY (influencer_id) REFERENCES influencers(id)
ForeignKeyHolds(tbl, influencer_id) == \E i \in 1..Len(tbl) : tbl[i].id = influencer_id

\* ensure_campaign_influencer called with any id: the INSERT of an id that no
\* creator has raises sqlite3.IntegrityError and stores nothing
EnsureCreator(campaign_id, influencer_id) ==
    IF ForeignKeyHolds(influencers, influencer_id)
    THEN ensure_campaign_influencer(campaign_id, influencer_id)
    ELSE /\ result.op = "idle"
         /\ result' = [op |-> "ensure", ok |-> FALSE, arg |-> <<campaign_id, influencer_id>>,
                       prev |-> None, ret |-> None]
         /\ UNCHANGED <<influencers, campaign_influencers, kol_sources, clock>>
         /\ Sequential

CreatorIds == 1..(MaxRows + 1)

NextRefs ==
    \/ Return
    \/ \E profile \in RacingProfiles : upsert_influencer(profile)
    \/ \E c \in ActiveCampaigns, id \in CreatorIds : EnsureCreator(c, id)
    \/ \E id \in 1..Len(campaign_influencers), payload \in ScorePayloads :
           save_campaign_influencer_scores(id, payload)
    \/ \E c \in ActiveCampaigns, link \in {InstagramLink, TikTokLink} :
           IngestProfileLink(c, link)

SpecRefs == Init /\ [][NextRefs]_vars

CreatorsKept ==
    /\ Len(influencers') >= Len(influencers)
    /\ \A i \in 1..Len(influencers) :
           /\ influencers'[i].id = influencers[i].id
           /\ influencers'[i].handle = influencers[i].handle
           /\ influencers'[i].platform = influencers[i].platform

StoredIdReturned ==
    (result'.op = "upsert" /\ result'.ok /\ result'.prev # None) =>
        /\ Val(result'.ret).id = Val(result'.prev).id
        /\ Val(result'.prev) \in { influencers[i] : i \in 1..Len(influencers) }

EveryAssociationRefers ==
    \A j \in 1..Len(campaign_influencers) :
        \E i \in 1..Len(influencers) :
            influencers[i].id = campaign_influencers[j].influencer_id

\* C26: an upsert of a stored key returns the id the first upsert gave it, no
\* operation removes a stored creator or changes its id or key, and after any
\* sequence of operations every association's influencer_id is the id of a
\* stored creator.
C26_CreatorIdsDurable ==
    /\ []EveryAssociationRefers
    /\ [][CreatorsKept /\ StoredIdReturned]_vars

\* a later upsert returned the id of a creator that an association refers to
C26_Witness ==
    /\ result.op = "upsert" /\ result.ok /\ result.prev # None
    /\ \E j \in 1..Len(campaign_influencers) :
           campaign_influencers[j].influencer_id = Val(result.ret).id
    /\ Len(influencers) >= 2

\* ---------------------------------------------------------------------------
\* app.py: run_with_timer, the calling thread and the executor's one worker
\* pc = [main, worker]; call = the locals of run_with_timer and the executor;
\* history = what the submitted function did, in order
\* ---------------------------------------------------------------------------

\* the records an import walks through
TimerBatches == UNION { [1..n -> RacingProfiles] : n \in 0..MaxBatch }

\* the two imports of app.py 1241-1259: the crawl first, the API as fallback
TimedFunctions == {"dom", "api"}

Pending == [state |-> "pending", kind |-> "none", value |-> 0]

NoTimer ==
    [ func |-> "none", records |-> <<>>, queue |-> <<>>, future |-> Pending,
      index |-> 1, shutdown |-> FALSE, outcome |-> [kind |-> "none", value |-> 0] ]

InitTimer ==
    /\ InitStore
    /\ pc = [main |-> "idle", worker |-> "none"]
    /\ call = NoTimer
    /\ history = <<>>

StoreKept == UNCHANGED <<influencers, campaign_influencers, kol_sources, clock, result>>

SubmitTwice(queue, func) == queue \o <<func, func>>

\* executor.submit(func, *args, **kwargs): one work item for the worker
Submit(queue, func) == Append(queue, func)

\* future.done()
FutureDone(future) == future.state = "finished"

\* with ThreadPoolExecutor(max_workers=1) as executor: future = executor.submit(...)
\* the fallback call follows a crawl that raised
RunWithTimer(func, records) ==
    /\ \/ pc.main = "idle" /\ func = "dom"
       \/ pc.main = "raised" /\ call.func = "dom" /\ func = "api"
    /\ pc' = [main |-> "poll", worker |-> "waiting"]
    /\ call' = [NoTimer EXCEPT !.func = func, !.records = records,
                               !.queue = Submit(<<>>, func)]
    /\ history' = <<>>
    /\ StoreKept

\* while not future.done():
PollFuture ==
    /\ pc.main = "poll"
    /\ pc' = [pc EXCEPT !.main = IF FutureDone(call.future) THEN "result" ELSE "sleep"]
    /\ UNCHANGED <<call, history>>
    /\ StoreKept

\* placeholder.info(...); time.sleep(0.2)
SleepStep ==
    /\ pc.main = "sleep"
    /\ pc' = [pc EXCEPT !.main = "poll"]
    /\ UNCHANGED <<call, history>>
    /\ StoreKept

\* result = future.result(): blocks until the future is finished, then
\* hands over the value or raises the stored exception
FutureResult ==
    /\ pc.main = "result"
    /\ call.future.state = "finished"
    /\ call' = [call EXCEPT !.outcome = [kind |-> call.future.kind,
                                         value |-> call.future.value]]
    /\ pc' = [pc EXCEPT !.main = "shutdown"]
    /\ UNCHANGED history
    /\ StoreKept

\* leaving the with block, normally or by the raise: executor.shutdown(wait=True)
ShutdownExecutor ==
    /\ pc.main = "shutdown"
    /\ call' = [call EXCEPT !.shutdown = TRUE]
    /\ pc' = [pc EXCEPT !.main = "join"]
    /\ UNCHANGED history
    /\ StoreKept

\* ... which joins the worker thread; then return result, or the raise
\* reaches the caller
JoinWorker ==
    /\ pc.main = "join"
    /\ pc.worker = "exited"
    /\ pc' = [pc EXCEPT !.main = IF call.outcome.kind = "result" THEN "returned"
                                 ELSE "raised"]
    /\ UNCHANGED <<call, history>>
    /\ StoreKept

\* the caller has shown the summary, or the error of the fallback
CallerContinues ==
    /\ \/ pc.main = "returned"
       \/ pc.main = "raised" /\ call.func = "api"
    /\ pc' = [main |-> "idle", worker |-> "none"]
    /\ call' = NoTimer
    /\ history' = <<>>
    /\ StoreKept

\* the worker takes the work item and starts the function
WorkerTake ==
    /\ pc.worker = "waiting"
    /\ call.queue # <<>>
    /\ pc' = [pc EXCEPT !.worker = "running"]
    /\ call' = [call EXCEPT !.queue = Tail(call.queue), !.index = 1,
                            !.future = [Pending EXCEPT !.state = "running"]]
    /\ history' = Append(history, [event |-> "begin", at |-> 0])
    /\ StoreKept

\* the function stores its next record
WorkerRecord ==
    /\ pc.worker = "running"
    /\ call.index <= Len(call.records)
    /\ influencers' = UpsertTable(influencers, call.records[call.index], clock)
    /\ call' = [call EXCEPT !.index = call.index + 1]
    /\ history' = Append(history, [event |-> "record", at |-> call.index])
    /\ UNCHANGED <<campaign_influencers, kol_sources, clock, result, pc>>

\* the function raises: future.set_exception(exc)
WorkerRaise ==
    /\ pc.worker = "running"
    /\ pc' = [pc EXCEPT !.worker = "waiting"]
    /\ call' = [call EXCEPT !.future = [state |-> "finished", kind |-> "exception",
                                        value |-> call.index]]
    /\ history' = Append(history, [event |-> "end", at |-> call.index])
    /\ StoreKept

\* the function returns its summary: future.set_result(result)
WorkerReturn ==
    /\ pc.worker = "running"
    /\ call.index > Len(call.records)
    /\ pc' = [pc EXCEPT !.worker = "waiting"]
    /\ call' = [call EXCEPT !.future = [state |-> "finished", kind |-> "result",
                                        value |-> Len(call.records)]]
    /\ history' = Append(history, [event |-> "end", at |-> call.index])
    /\ StoreKept

\* no work left after the shutdown: the worker thread ends
WorkerExit ==
    /\ pc.worker = "waiting"
    /\ call.queue = <<>>
    /\ call.shutdown
    /\ pc' = [pc EXCEPT !.worker = "exited"]
    /\ UNCHANGED <<call, history>>
    /\ StoreKept

NextTimer ==
    \/ \E func \in TimedFunctions, records \in TimerBatches : RunWithTimer(func, records)
    \/ PollFuture
    \/ SleepStep
    \/ FutureResult
    \/ ShutdownExecutor
    \/ JoinWorker
    \/ CallerContinues
    \/ WorkerTake
    \/ WorkerRecord
    \/ WorkerRaise
    \/ WorkerReturn
    \/ WorkerExit

SpecTimer == InitTimer /\ [][NextTimer]_vars

Events(kind) == SelectSeq(history, LAMBDA e : e.event = kind)

TimerLeft == pc.main \in {"returned", "raised"}

\* C30: run_with_timer leaves (by return or by raise) only after the worker
\* has finished the function, which it ran exactly once; a return carries
\* the function's result and a raise the function's exception; the function
\* never runs a second time, and its records are handled in their order, one
\* after another.
C30_TimerWaitsForWorker ==
    /\ Len(Events("begin")) <= 1
    /\ \A i \in 1..Len(Events("record")) : Events("record")[i].at = i
    /\ TimerLeft =>
           /\ pc.worker = "exited"
           /\ call.future.state = "finished"
           /\ Len(Events("begin")) = 1 /\ Len(Events("end")) = 1
           /\ call.outcome = [kind |-> call.future.kind, value |-> call.future.value]
           /\ pc.main = "returned" =>
                  /\ call.future.kind = "result"
                  /\ call.outcome.value = Len(call.records)
                  /\ Len(Events("record")) = Len(call.records)
           /\ pc.main = "raised" => call.future.kind = "exception"

\* the fallback import returned its summary of two records, after the crawl
\* had raised to the caller
C30_Witness ==
    /\ pc.main = "returned"
    /\ call.func = "api"
    /\ Len(call.records) = 2
    /\ Len(influencers) = 2

====
